---- MODULE Spec2Model ----
(***************************************************************************)
(* Network interface domain converter of virt-launcher                     *)
(* (pkg/virt-launcher/virtwrap/converter/network.go).                      *)
(*                                                                         *)
(* Go values are represented as follows.                                   *)
(*   - a pointer is a sequence of length 0 (nil) or 1 (the pointee);        *)
(*   - a binding pointer (to InterfaceBridge, ...) points to an empty struct,*)
(*     so only "is it nil" is kept, as a BOOLEAN (TRUE = non-nil);          *)
(*   - an error is its message, NilErr being the nil error;                 *)
(*   - a Go string is a TLA+ string; a string that the code splits on "/"   *)
(*     is kept as the sequence of its "/" separators and the "/"-free       *)
(*     chunks between them (Flatten gives the plain string);                *)
(*   - a nil-pointer dereference is the outcome "panic".                    *)
(***************************************************************************)
EXTENDS Integers, Sequences, FiniteSets, TLC

VARIABLES
    vmi,               \* the VirtualMachineInstance spec handed to the call
    domain,            \* the api.Domain the call appends qemu arguments to
    c,                 \* the ConverterContext (PodNetInterfaces)
    env,               \* virtioNetProhibited and the resolv.conf lookup result
    pre,               \* vmi and domain as they were when the call started
    pc,                \* position of createDomainInterfaces
    i,                 \* index of the interface the loop is at (1-based)
    networks,          \* the name index built by indexNetworksByName
    domainInterfaces,  \* the records appended so far
    ret,               \* what the call returned
    spec,              \* the VirtualMachineSpec handed to the webhook
    volume,            \* the storage of the webhook's range variable volume
    volumeNameMap,     \* volume name -> address stored by &volume
    volumeToDiskIndexMap,  \* volume name -> index of the first disk naming it
    causes             \* the status causes collected so far

webhookVars == <<spec, volume, volumeNameMap, volumeToDiskIndexMap, causes>>

vars == <<vmi, domain, c, env, pre, pc, i, networks, domainInterfaces, ret,
          spec, volume, volumeNameMap, volumeToDiskIndexMap, causes>>

----------------------------------------------------------------------------
(* Bounds of the model *)

MaxNets == 2
MaxIfaces == 2
MaxPorts == 3
MaxPodNets == 3
MaxPathLen == 4
MaxEntries == 3
MaxDomains == 2
MaxVCPUs == 10

----------------------------------------------------------------------------
(* Go idioms *)

NilErr == "<nil>"

IsNil(p) == p = <<>>

Ptr(v) == <<v>>

Deref(p) == p[1]

RECURSIVE Flatten(_)
Flatten(s) == IF s = <<>> THEN "" ELSE Head(s) \o Flatten(Tail(s))

(* strings.Split(s, "/") on a chunked string: the list of the parts between *)
(* the separators; a string without separator yields the single part s.     *)
RECURSIVE SplitFrom(_, _)
SplitFrom(s, cur) ==
    IF s = <<>> THEN <<cur>>
    ELSE IF Head(s) = "/" THEN <<cur>> \o SplitFrom(Tail(s), <<>>)
    ELSE SplitFrom(Tail(s), Append(cur, Head(s)))

Split(s) == SplitFrom(s, <<>>)

----------------------------------------------------------------------------
(* Constants of the program *)

PrimaryPodInterfaceName == "eth0"

DefaultProtocol == "TCP"

DefaultVMCIDR == "10.0.2.0/24"

VhostuserSocketDir == <<"/", "var", "/", "run", "/", "vhostuser", "/">>

DeviceInfoTypeVHostUser == "vhost-user"

vhostuserQueueSize == 1024

multiQueueMaxQueues == 8

----------------------------------------------------------------------------
(* Helpers of the converter *)

(* Fault injection: rtl8139 is not accepted for slirp *)
getInterfaceTypeOnlyE1000(iface) ==
    IF iface.Slirp
    THEN "e1000"
    ELSE IF iface.Model # "" THEN iface.Model ELSE "virtio"

getInterfaceType(iface) ==
    IF iface.Slirp
    THEN IF iface.Model # "e1000" /\ iface.Model # "rtl8139"
         THEN "e1000"
         ELSE iface.Model
    ELSE IF iface.Model # "" THEN iface.Model ELSE "virtio"

translateModel(ctx, bus) == bus

NewUserDefinedAlias(name) == [Name |-> name, UserDefined |-> TRUE]

(* Fault injection: a network with both sources is not rejected *)
RECURSIVE validateNetworksTypesNeitherOnly(_)
validateNetworksTypesNeitherOnly(nets) ==
    IF nets = <<>> THEN NilErr
    ELSE LET network == Head(nets) IN
         IF IsNil(network.Pod) /\ IsNil(network.Multus)
         THEN "network " \o network.Name \o " must have a network type"
         ELSE validateNetworksTypesNeitherOnly(Tail(nets))

RECURSIVE validateNetworksTypes(_)
validateNetworksTypes(nets) ==
    IF nets = <<>> THEN NilErr
    ELSE LET network == Head(nets) IN
         IF ~IsNil(network.Pod) /\ ~IsNil(network.Multus)
         THEN "network " \o network.Name \o " must have only one network type"
         ELSE IF IsNil(network.Pod) /\ IsNil(network.Multus)
         THEN "network " \o network.Name \o " must have a network type"
         ELSE validateNetworksTypes(Tail(nets))

(* Fault injection: the first network of a name is kept *)
RECURSIVE indexFromFirstWins(_, _)
indexFromFirstWins(nets, netsByName) ==
    IF nets = <<>> THEN netsByName
    ELSE LET network == Head(nets) IN
         indexFromFirstWins(Tail(nets),
                   [n \in DOMAIN netsByName \cup {network.Name} |->
                       IF n \in DOMAIN netsByName THEN netsByName[n] ELSE network])

(* The index is a function from the declared names to a copy of a network; *)
(* a later network of the same name overwrites the earlier one.            *)
RECURSIVE indexFrom(_, _)
indexFrom(nets, netsByName) ==
    IF nets = <<>> THEN netsByName
    ELSE LET network == Head(nets) IN
         indexFrom(Tail(nets),
                   [n \in DOMAIN netsByName \cup {network.Name} |->
                       IF n = network.Name THEN network ELSE netsByName[n]])

indexNetworksByName(nets) == indexFrom(nets, <<>>)

----------------------------------------------------------------------------
(* User-mode (slirp) network argument *)

(* strings.ToLower on the protocol names the model draws *)
ToLower(s) ==
    CASE s = "TCP" -> "tcp"
      [] s = "UDP" -> "udp"
      [] s = "Tcp" -> "tcp"
      [] OTHER -> s

(* net.ParseCIDR succeeds on an address/prefix-length string *)
ParseCIDRFails(s) == s \notin {"10.0.2.0/24", "192.168.0.0/16"}

(* Fault injection: the key forgets the protocol *)
portConfigKeyByPortOnly(Protocol, Port) == ToString(Port)

(* The key under which a forwarded port is remembered as configured *)
portConfigKey(Protocol, Port) == Protocol \o "-" \o ToString(Port)

(* Fault injection: the loop variable is a pointer into iface.Ports *)
assignThroughPointer(ports, k, forwardPort) == [ports EXCEPT ![k] = forwardPort]

(* forwardPort.Protocol = api.DefaultProtocol, as iface.Ports sees it:     *)
(* forwardPort is the loop's copy of iface.Ports[k], so the assignment     *)
(* does not reach the slice.                                               *)
assignToRangeCopy(ports, k, forwardPort) == ports

(* The loop of configPortForward from the k-th forward port on: value is   *)
(* qemuArg.Value so far, configuredPorts the keys already seen; Ports is   *)
(* iface.Ports as the loop leaves it.                                      *)
RECURSIVE portForwardLoop(_, _, _, _)
portForwardLoop(ports, k, value, configuredPorts) ==
    IF k > Len(ports) THEN [err |-> NilErr, Value |-> value, Ports |-> ports]
    ELSE IF ports[k].Port = 0
    THEN [err |-> "Port must be configured", Value |-> value, Ports |-> ports]
    ELSE LET forwardPort == IF ports[k].Protocol = ""
                            THEN [ports[k] EXCEPT !.Protocol = DefaultProtocol]
                            ELSE ports[k]
             after == IF ports[k].Protocol = ""
                      THEN assignToRangeCopy(ports, k, forwardPort)
                      ELSE ports
             portConfig == portConfigKey(forwardPort.Protocol, forwardPort.Port)
         IN  IF portConfig \notin configuredPorts
             THEN portForwardLoop(after, k + 1,
                      value \o ",hostfwd=" \o ToLower(forwardPort.Protocol) \o "::"
                            \o ToString(forwardPort.Port) \o "-:"
                            \o ToString(forwardPort.Port),
                      configuredPorts \cup {portConfig})
             ELSE portForwardLoop(after, k + 1, value, configuredPorts)

configPortForward(value, iface) == portForwardLoop(iface.Ports, 1, value, {})

(* network.Pod is dereferenced without a nil check *)
configVMCIDR(value, network) ==
    IF IsNil(network.Pod)
    THEN [panic |-> TRUE, err |-> NilErr, Value |-> value]
    ELSE LET cidr == Deref(network.Pod).VMNetworkCIDR IN
         IF cidr # ""
         THEN IF ParseCIDRFails(cidr)
              THEN [panic |-> FALSE, err |-> "Failed parsing CIDR " \o cidr,
                    Value |-> value]
              ELSE [panic |-> FALSE, err |-> NilErr,
                    Value |-> value \o ",net=" \o cidr]
         ELSE [panic |-> FALSE, err |-> NilErr,
               Value |-> value \o ",net=" \o DefaultVMCIDR]

(* What the read and parse of the pod's resolv.conf gave: an error, or the *)
(* search domains.                                                         *)
GetResolvConfDetailsFromPod == env.resolv

(* Fault injection: each clause is put in front of the value so far *)
RECURSIVE dnsSearchLoopReversed(_, _)
dnsSearchLoopReversed(doms, value) ==
    IF doms = <<>> THEN value
    ELSE dnsSearchLoopReversed(Tail(doms), value) \o ",dnssearch=" \o Head(doms)

RECURSIVE dnsSearchLoop(_, _)
dnsSearchLoop(doms, value) ==
    IF doms = <<>> THEN value
    ELSE dnsSearchLoop(Tail(doms), value \o ",dnssearch=" \o Head(doms))

configDNSSearchName(value) ==
    LET r == GetResolvConfDetailsFromPod IN
    IF r.err # NilErr
    THEN [err |-> r.err, Value |-> value]
    ELSE [err |-> NilErr, Value |-> dnsSearchLoop(r.searchDomains, value)]

initializeQEMUCmdAndQEMUArg(dom) ==
    IF IsNil(dom.QEMUCmd) THEN [dom EXCEPT !.QEMUCmd = Ptr([QEMUArg |-> <<>>])]
    ELSE dom

(* Fault injection: the argument pair goes in front of the arguments *)
appendNetdevInFront(dom, value) ==
    [dom EXCEPT !.QEMUCmd = Ptr([QEMUArg |->
        <<"-netdev", value>> \o Deref(dom.QEMUCmd).QEMUArg])]

(* domain.Spec.QEMUCmd.QEMUArg = append(..., "-netdev", qemuArg.Value) *)
appendNetdev(dom, value) ==
    [dom EXCEPT !.QEMUCmd = Ptr([QEMUArg |->
        Deref(dom.QEMUCmd).QEMUArg \o <<"-netdev", value>>])]

(* Returns the error (or the panic) and the domain as the call leaves it. *)
createSlirpNetwork(iface, network, dom) ==
    LET a0 == "user,id=" \o iface.Name
        r1 == configVMCIDR(a0, network)
        r2 == configDNSSearchName(r1.Value)
        r3 == configPortForward(r2.Value, iface)
    IN  IF r1.panic
        THEN [panic |-> TRUE, err |-> NilErr, domain |-> dom, Ports |-> iface.Ports]
        ELSE IF r1.err # NilErr
        THEN [panic |-> FALSE, err |-> r1.err, domain |-> dom, Ports |-> iface.Ports]
        ELSE IF r2.err # NilErr
        THEN [panic |-> FALSE, err |-> r2.err, domain |-> dom, Ports |-> iface.Ports]
        ELSE IF r3.err # NilErr
        THEN [panic |-> FALSE, err |-> r3.err, domain |-> dom, Ports |-> r3.Ports]
        ELSE [panic |-> FALSE, err |-> NilErr, domain |-> appendNetdev(dom, r3.Value),
              Ports |-> r3.Ports]

----------------------------------------------------------------------------
(* Network queues *)

(* Fault injection: the cap is forgotten *)
CalculateNetworkQueuesUncapped(v) == v.vcpus

(* v.vcpus is vcpu.CalculateRequestedVCPUs(getCPUTopology(vmi)) *)
CalculateNetworkQueues(v) ==
    IF v.vcpus > multiQueueMaxQueues THEN multiQueueMaxQueues ELSE v.vcpus

----------------------------------------------------------------------------
(* Pod interface names *)

isSecondaryMultusNetwork(net) ==
    ~IsNil(net.Multus) /\ ~Deref(net.Multus).Default

RECURSIVE findMultusIndexFrom(_, _, _)
findMultusIndexFrom(nets, networkToFind, idxMultus) ==
    IF nets = <<>> THEN -1
    ELSE IF isSecondaryMultusNetwork(Head(nets))
    THEN IF Head(nets).Name = networkToFind.Name
         THEN idxMultus + 1
         ELSE findMultusIndexFrom(Tail(nets), networkToFind, idxMultus + 1)
    ELSE findMultusIndexFrom(Tail(nets), networkToFind, idxMultus)

findMultusIndex(v, networkToFind) ==
    findMultusIndexFrom(v.Networks, networkToFind, 0)

ComposePodInterfaceName(v, network) ==
    IF isSecondaryMultusNetwork(network)
    THEN LET multusIndex == findMultusIndex(v, network) IN
         IF multusIndex = -1
         THEN [name |-> "", err |-> "Network name " \o network.Name \o " not found"]
         ELSE [name |-> "net" \o ToString(multusIndex), err |-> NilErr]
    ELSE [name |-> PrimaryPodInterfaceName, err |-> NilErr]

(* A pointer to the first interface of the network's name, nil when none *)
RECURSIVE findInterfaceFrom(_, _)
findInterfaceFrom(ifaces, network) ==
    IF ifaces = <<>> THEN <<>>
    ELSE IF Head(ifaces).Name = network.Name THEN Ptr(Head(ifaces))
    ELSE findInterfaceFrom(Tail(ifaces), network)

FindInterfaceByNetworkName(v, network) == findInterfaceFrom(v.Interfaces, network)

(* iface.Name is read without a nil check on what FindInterfaceByNetworkName *)
(* returned.                                                                *)
RECURSIVE podInterfaceNameFrom(_, _, _)
podInterfaceNameFrom(v, k, ifaceName) ==
    IF k > Len(v.Networks)
    THEN [panic |-> FALSE, name |-> "",
          err |-> "Interface " \o ifaceName \o " not found"]
    ELSE LET network == v.Networks[k] IN
         IF IsNil(network.Pod) /\ IsNil(network.Multus)
         THEN podInterfaceNameFrom(v, k + 1, ifaceName)
         ELSE LET iface == FindInterfaceByNetworkName(v, network) IN
              IF IsNil(iface)
              THEN [panic |-> TRUE, name |-> "", err |-> NilErr]
              ELSE IF Deref(iface).Name = ifaceName
              THEN LET r == ComposePodInterfaceName(v, network) IN
                   IF r.err # NilErr
                   THEN [panic |-> FALSE, name |-> "", err |-> r.err]
                   ELSE [panic |-> FALSE, name |-> r.name, err |-> NilErr]
              ELSE podInterfaceNameFrom(v, k + 1, ifaceName)

getPodInterfaceName(v, ifaceName) == podInterfaceNameFrom(v, 1, ifaceName)

----------------------------------------------------------------------------
(* Vhost-user socket lookup *)

(* Fault injection: the device type is not looked at *)
RECURSIVE vhostuserInfoFromAnyType(_, _)
vhostuserInfoFromAnyType(entries, ifaceName) ==
    IF entries = <<>>
    THEN [Path |-> <<>>, Mode |-> "",
          err |-> "Unable to get vhostuser interface info for " \o ifaceName]
    ELSE LET iface == Head(entries)
             networkNameParts == Split(iface.NetworkStatus.Name)
         IN  IF Flatten(networkNameParts[Len(networkNameParts)]) = ifaceName
             THEN [Path |-> iface.NetworkStatus.DeviceInfo.VhostUser.Path,
                   Mode |-> iface.NetworkStatus.DeviceInfo.VhostUser.Mode,
                   err |-> NilErr]
             ELSE vhostuserInfoFromAnyType(Tail(entries), ifaceName)

RECURSIVE vhostuserInfoFrom(_, _)
vhostuserInfoFrom(entries, ifaceName) ==
    IF entries = <<>>
    THEN [Path |-> <<>>, Mode |-> "",
          err |-> "Unable to get vhostuser interface info for " \o ifaceName]
    ELSE LET iface == Head(entries)
             networkNameParts == Split(iface.NetworkStatus.Name)
         IN  IF /\ iface.DeviceType = DeviceInfoTypeVHostUser
                /\ Flatten(networkNameParts[Len(networkNameParts)]) = ifaceName
             THEN [Path |-> iface.NetworkStatus.DeviceInfo.VhostUser.Path,
                   Mode |-> iface.NetworkStatus.DeviceInfo.VhostUser.Mode,
                   err |-> NilErr]
             ELSE vhostuserInfoFrom(Tail(entries), ifaceName)

getVhostuserInfo(ifaceName, ctx) ==
    IF IsNil(ctx.PodNetInterfaces)
    THEN [Path |-> <<>>, Mode |-> "",
          err |-> "PodNetInterfaces cannot be nil for vhostuser interface"]
    ELSE vhostuserInfoFrom(Deref(ctx.PodNetInterfaces).Interface, ifaceName)

----------------------------------------------------------------------------
(* createDomainInterfaces *)

(* device.NewPciAddressField: the structured address of a well-formed PCI  *)
(* address string, an error otherwise.                                     *)
NewPciAddressField(s) ==
    IF s \in {"0000:81:01.0"}
    THEN [addr |-> Ptr([Type |-> "pci", Domain |-> "0x0000", Bus |-> "0x81",
                        Slot |-> "0x01", Function |-> "0x0"]),
          err |-> NilErr]
    ELSE [addr |-> <<>>, err |-> "could not parse pci address " \o s]

NoSource == [Type |-> "", Path |-> "", Mode |-> ""]

NoRecord ==
    [Type |-> "", Model |-> <<>>, Alias |-> <<>>, Address |-> <<>>,
     BootOrder |-> <<>>, Rom |-> <<>>, Driver |-> <<>>, Source |-> NoSource,
     Target |-> <<>>]

InterfaceDriver(name, queues, rx, tx) ==
    [Name |-> name, Queues |-> queues, RxQueueSize |-> rx, TxQueueSize |-> tx]

(* Fault injection: the ROM is disabled on boot interfaces too *)
withBootOrderAndRom(domainIface, iface) ==
    IF ~IsNil(iface.BootOrder)
    THEN [domainIface EXCEPT !.BootOrder = Ptr([Order |-> Deref(iface.BootOrder)]),
                             !.Rom = Ptr([Enabled |-> "no"])]
    ELSE [domainIface EXCEPT !.Rom = Ptr([Enabled |-> "no"])]

(* The boot order of the interface when it declares one, a disabled ROM    *)
(* otherwise.                                                              *)
withBootOrderOrRom(domainIface, iface) ==
    IF ~IsNil(iface.BootOrder)
    THEN [domainIface EXCEPT !.BootOrder = Ptr([Order |-> Deref(iface.BootOrder)])]
    ELSE [domainIface EXCEPT !.Rom = Ptr([Enabled |-> "no"])]

(* Fault injection: the device is the first path segment *)
vhostSocketFirstPart(reportedPath) ==
    LET vhostPathParts == Split(reportedPath) IN
    [Device |-> vhostPathParts[1],
     Path |-> IF Len(vhostPathParts) = 1
              THEN VhostuserSocketDir \o reportedPath
              ELSE reportedPath]

(* The socket path and the target device derived from the reported path *)
vhostSocket(reportedPath) ==
    LET vhostPathParts == Split(reportedPath) IN
    [Device |-> vhostPathParts[Len(vhostPathParts)],
     Path |-> IF Len(vhostPathParts) = 1
              THEN VhostuserSocketDir \o reportedPath
              ELSE reportedPath]

(* Fault injection: the libvirt "bridge" interface type *)
bridgeBranchAsBridge(domainIface, dom, iface) ==
    [Ports |-> iface.Ports, kind |-> "append", err |-> NilErr, domain |-> dom,
     rec |-> withBootOrderOrRom([domainIface EXCEPT !.Type = "bridge"], iface)]

(* Bridge or masquerade: "ethernet", for a pre-configured tap device *)
bridgeBranch(domainIface, dom, iface) ==
    [Ports |-> iface.Ports, kind |-> "append", err |-> NilErr, domain |-> dom,
     rec |-> withBootOrderOrRom([domainIface EXCEPT !.Type = "ethernet"], iface)]

slirpBranch(domainIface, dom, iface, net) ==
    LET r == createSlirpNetwork(iface, net, initializeQEMUCmdAndQEMUArg(dom)) IN
    IF r.panic
    THEN [Ports |-> r.Ports,
          kind |-> "panic", err |-> NilErr, rec |-> NoRecord, domain |-> r.domain]
    ELSE IF r.err # NilErr
    THEN [Ports |-> r.Ports,
          kind |-> "error", err |-> r.err, rec |-> NoRecord, domain |-> r.domain]
    ELSE [Ports |-> r.Ports,
          kind |-> "append", err |-> NilErr, domain |-> r.domain,
          rec |-> [domainIface EXCEPT !.Type = "user"]]

macvtapBranch(domainIface, dom, iface, net) ==
    IF IsNil(net.Multus)
    THEN [Ports |-> iface.Ports,
          kind |-> "error", rec |-> NoRecord, domain |-> dom,
          err |-> "macvtap interface " \o iface.Name \o " requires Multus meta-cni"]
    ELSE [Ports |-> iface.Ports,
          kind |-> "append", err |-> NilErr, domain |-> dom,
          rec |-> withBootOrderOrRom([domainIface EXCEPT !.Type = "ethernet"], iface)]

vhostuserBranch(domainIface0, v, dom, ctx, iface) ==
    LET domainIface == [domainIface0 EXCEPT !.Type = "vhostuser"]
        n == getPodInterfaceName(v, iface.Name)
        podInterfaceName == IF n.err # NilErr THEN "" ELSE n.name
        info == getVhostuserInfo(podInterfaceName, ctx)
        sock == vhostSocket(info.Path)
    IN  IF n.panic
        THEN [Ports |-> iface.Ports,
              kind |-> "panic", err |-> NilErr, rec |-> NoRecord, domain |-> dom]
        ELSE IF info.err # NilErr
        THEN [Ports |-> iface.Ports,
              kind |-> "error", err |-> info.err, rec |-> NoRecord, domain |-> dom]
        ELSE [Ports |-> iface.Ports,
              kind |-> "append", err |-> NilErr, domain |-> dom,
              rec |-> [domainIface EXCEPT
                         !.Source = [Type |-> "unix", Path |-> Flatten(sock.Path),
                                     Mode |-> info.Mode],
                         !.Target = Ptr([Device |-> Flatten(sock.Device)]),
                         !.Driver = Ptr(InterfaceDriver("", <<>>,
                                            Ptr(vhostuserQueueSize),
                                            Ptr(vhostuserQueueSize)))]]

(* The dispatch on the binding: the first non-nil binding in the order of  *)
(* the if/else chain is applied; with none set the record keeps no type.   *)
bindingDispatch(domainIface, v, dom, ctx, iface, net) ==
    IF iface.Bridge \/ iface.Masquerade
    THEN bridgeBranch(domainIface, dom, iface)
    ELSE IF iface.Slirp
    THEN slirpBranch(domainIface, dom, iface, net)
    ELSE IF iface.Macvtap
    THEN macvtapBranch(domainIface, dom, iface, net)
    ELSE IF iface.Vhostuser
    THEN vhostuserBranch(domainIface, v, dom, ctx, iface)
    ELSE [Ports |-> iface.Ports,
          kind |-> "append", err |-> NilErr, domain |-> dom, rec |-> domainIface]

(* The driver the multi-queue check of lines 71-80 leaves on the record *)
multiQueueDriver(v, ifaceType) ==
    LET virtioNetMQRequested ==
            IF ~IsNil(v.NetworkInterfaceMultiQueue)
            THEN Deref(v.NetworkInterfaceMultiQueue)
            ELSE FALSE
    IN  IF ifaceType = "virtio" /\ virtioNetMQRequested
        THEN Ptr(InterfaceDriver("vhost", Ptr(CalculateNetworkQueues(v)), <<>>, <<>>))
        ELSE <<>>

(* The body of the loop after the network lookup, for the interface at    *)
(* idx and its network net: kind is "continue" (SR-IOV, no record),        *)
(* "append" (rec is appended), "error" (the call returns nil, err) or      *)
(* "panic".                                                                *)
convertInterface(v, dom, ctx, virtioNetProhibited, net, idx) ==
    LET iface == v.Interfaces[idx]
        ifaceType == getInterfaceType(v.Interfaces[idx])
        addr == NewPciAddressField(iface.PciAddress)
        domainIface ==
            [NoRecord EXCEPT
               !.Model = Ptr([Type |-> translateModel(ctx, ifaceType)]),
               !.Alias = Ptr(NewUserDefinedAlias(iface.Name)),
               !.Driver = multiQueueDriver(v, ifaceType),
               !.Address = IF iface.PciAddress # "" THEN addr.addr ELSE <<>>]
    IN  IF iface.SRIOV
        THEN [Ports |-> iface.Ports,
              kind |-> "continue", err |-> NilErr, rec |-> NoRecord, domain |-> dom]
        ELSE IF ifaceType = "virtio" /\ virtioNetProhibited
        THEN [Ports |-> iface.Ports,
              kind |-> "error", rec |-> NoRecord, domain |-> dom,
              err |-> "In-kernel virtio-net device emulation '/dev/vhost-net' not present"]
        ELSE IF iface.PciAddress # "" /\ addr.err # NilErr
        THEN [Ports |-> iface.Ports,
              kind |-> "error", rec |-> NoRecord, domain |-> dom,
              err |-> "failed to configure interface " \o iface.Name
                         \o ": " \o addr.err]
        ELSE bindingDispatch(domainIface, v, dom, ctx, iface, net)

(* Fault injection: an SR-IOV interface is skipped before its network is   *)
(* looked up.                                                              *)
loopBodySkipBeforeLookup(v, dom, ctx, virtioNetProhibited, nets, idx) ==
    LET iface == v.Interfaces[idx]
        isExist == iface.Name \in DOMAIN nets
    IN  IF iface.SRIOV
        THEN [Ports |-> iface.Ports,
              kind |-> "continue", err |-> NilErr, rec |-> NoRecord, domain |-> dom]
        ELSE IF ~isExist
        THEN [Ports |-> iface.Ports,
              kind |-> "error", rec |-> NoRecord, domain |-> dom,
              err |-> "failed to find network " \o iface.Name]
        ELSE convertInterface(v, dom, ctx, virtioNetProhibited, nets[iface.Name], idx)

(* One iteration of the loop over vmi.Spec.Domain.Devices.Interfaces: the  *)
(* network lookup, then the rest of the body.                              *)
loopBody(v, dom, ctx, virtioNetProhibited, nets, idx) ==
    LET iface == v.Interfaces[idx]
        isExist == iface.Name \in DOMAIN nets
    IN  IF ~isExist
        THEN [Ports |-> iface.Ports,
              kind |-> "error", rec |-> NoRecord, domain |-> dom,
              err |-> "failed to find network " \o iface.Name]
        ELSE convertInterface(v, dom, ctx, virtioNetProhibited, nets[iface.Name], idx)

(* Fault injection: the record is put in front *)
prependDomainInterface(ifaces, domainIface) == <<domainIface>> \o ifaces

(* domainInterfaces = append(domainInterfaces, domainIface) *)
appendDomainInterface(ifaces, domainIface) == Append(ifaces, domainIface)

NoReturn == [kind |-> "none", ifaces |-> <<>>, err |-> NilErr]

(* No admission review is in progress *)
NoSpec == [Volumes |-> <<>>, Domain |-> [Devices |-> [Disks |-> <<>>]]]

NoWebhookCall ==
    /\ spec = NoSpec
    /\ volume = <<>>
    /\ volumeNameMap = <<>>
    /\ volumeToDiskIndexMap = <<>>
    /\ causes = <<>>

(* Entry of the call: validateNetworksTypes, then indexNetworksByName *)
Validate ==
    /\ pc = "start"
    /\ LET err == validateNetworksTypes(vmi.Networks) IN
       IF err # NilErr
       THEN /\ ret' = [kind |-> "error", ifaces |-> <<>>, err |-> err]
            /\ pc' = "done"
            /\ UNCHANGED <<networks, i>>
       ELSE /\ networks' = indexNetworksByName(vmi.Networks)
            /\ i' = 1
            /\ pc' = "loop"
            /\ UNCHANGED ret
    /\ UNCHANGED <<vmi, domain, c, env, pre, domainInterfaces>>
    /\ UNCHANGED webhookVars

(* One iteration of the loop; the spec is left with the interface's ports  *)
(* as the iteration leaves them.                                           *)
Iterate ==
    /\ pc = "loop"
    /\ i <= Len(vmi.Interfaces)
    /\ LET r == loopBody(vmi, domain, c, env.virtioNetProhibited, networks, i) IN
       /\ domain' = r.domain
       /\ vmi' = [vmi EXCEPT !.Interfaces[i].Ports = r.Ports]
       /\ CASE r.kind = "continue" ->
                 /\ i' = i + 1
                 /\ UNCHANGED <<pc, domainInterfaces, ret>>
            [] r.kind = "append" ->
                 /\ i' = i + 1
                 /\ domainInterfaces' = appendDomainInterface(domainInterfaces, r.rec)
                 /\ UNCHANGED <<pc, ret>>
            [] r.kind = "error" ->
                 /\ ret' = [kind |-> "error", ifaces |-> <<>>, err |-> r.err]
                 /\ pc' = "done"
                 /\ UNCHANGED <<i, domainInterfaces>>
            [] r.kind = "panic" ->
                 /\ ret' = [kind |-> "panic", ifaces |-> <<>>, err |-> NilErr]
                 /\ pc' = "done"
                 /\ UNCHANGED <<i, domainInterfaces>>
    /\ UNCHANGED <<c, env, pre, networks>>
    /\ UNCHANGED webhookVars

(* The loop is over: return domainInterfaces, nil *)
Return ==
    /\ pc = "loop"
    /\ i > Len(vmi.Interfaces)
    /\ ret' = [kind |-> "ok", ifaces |-> domainInterfaces, err |-> NilErr]
    /\ pc' = "done"
    /\ UNCHANGED <<vmi, domain, c, env, pre, i, networks, domainInterfaces>>
    /\ UNCHANGED webhookVars

Next == Validate \/ Iterate \/ Return

----------------------------------------------------------------------------
(* Inputs *)

SeqsUpTo(S, n) == UNION {[1..k -> S] : k \in 0..n}

(* The k-th declared network is named n<k>; an interface is named after    *)
(* the first or the second network, declared or not.                       *)
NetName(k) == "n" \o ToString(k)

Names == {NetName(1), NetName(2)}

Network(name, pod, multus) == [Name |-> name, Pod |-> pod, Multus |-> multus]

PodNetwork(cidr) == Ptr([VMNetworkCIDR |-> cidr])

MultusNetwork(default) == Ptr([Default |-> default])

Interface(name, model, binding, bootOrder, pciAddress, ports) ==
    [Name |-> name, Model |-> model,
     Bridge |-> "Bridge" \in binding, Masquerade |-> "Masquerade" \in binding,
     Slirp |-> "Slirp" \in binding, Macvtap |-> "Macvtap" \in binding,
     SRIOV |-> "SRIOV" \in binding, Vhostuser |-> "Vhostuser" \in binding,
     BootOrder |-> bootOrder, PciAddress |-> pciAddress, Ports |-> ports]

VMI(nets, ifaces, mq, vcpus) ==
    [Networks |-> nets, Interfaces |-> ifaces,
     NetworkInterfaceMultiQueue |-> mq, vcpus |-> vcpus]

Bindings == {"Bridge", "Masquerade", "Slirp", "Macvtap", "SRIOV", "Vhostuser"}

(* Network lists with the names n1, n2, ... in declaration order; a kind  *)
(* is the pair of a network's Pod and Multus pointers.                     *)
NetLists(kinds, n) ==
    {[k \in DOMAIN ks |-> Network(NetName(k), ks[k][1], ks[k][2])] :
        ks \in SeqsUpTo(kinds, n)}

PodNetInterface(deviceType, name, path, mode) ==
    [DeviceType |-> deviceType,
     NetworkStatus |-> [Name |-> name,
                        DeviceInfo |-> [VhostUser |-> [Path |-> path, Mode |-> mode]]]]

(* What the CNI layer reported: a vhost-user socket for eth0 and for net1 *)
ReportedInterfaces ==
    Ptr([Interface |-> <<
        PodNetInterface(DeviceInfoTypeVHostUser, <<"eth0">>, <<"vhu0.sock">>, "client"),
        PodNetInterface(DeviceInfoTypeVHostUser, <<"default", "/", "net1">>,
                        <<"/", "var", "/", "vhu1.sock">>, "server")>>])

ResolvOk(doms) == [err |-> NilErr, searchDomains |-> doms]

NoCmd == [QEMUCmd |-> <<>>]

CmdWith(args) == [QEMUCmd |-> Ptr([QEMUArg |-> args])]

InitWith(vmis, domains, ctxs, envs) ==
    /\ vmi \in vmis
    /\ domain \in domains
    /\ c \in ctxs
    /\ env \in envs
    /\ pre = [vmi |-> vmi, domain |-> domain]
    /\ pc = "start"
    /\ i = 0
    /\ networks = <<>>
    /\ domainInterfaces = <<>>
    /\ ret = NoReturn
    /\ NoWebhookCall

(* The dispatch: every single binding and no binding, on every kind of     *)
(* network, valid or not, with the host flag set or not.                   *)
SpecInterfaces ==
    {Interface(n, "", b, <<>>, "", <<>>) :
        n \in Names, b \in {{}} \cup {{x} : x \in Bindings}}

SpecNetKinds ==
    {<<PodNetwork(""), <<>>>>, <<<<>>, MultusNetwork(FALSE)>>,
     <<<<>>, MultusNetwork(TRUE)>>, <<PodNetwork(""), MultusNetwork(FALSE)>>,
     <<<<>>, <<>>>>}

SpecVMIs(maxNets, maxIfaces) ==
    {VMI(nets, ifaces, <<>>, 4) :
        nets \in NetLists(SpecNetKinds, maxNets),
        ifaces \in SeqsUpTo(SpecInterfaces, maxIfaces)}

SpecEnvs ==
    {[virtioNetProhibited |-> p, resolv |-> ResolvOk(<<"svc.local">>)] :
        p \in BOOLEAN}

Init ==
    InitWith(SpecVMIs(MaxNets, MaxIfaces), {NoCmd},
             {[PodNetInterfaces |-> ReportedInterfaces]}, SpecEnvs)

Spec == Init /\ [][Next]_vars

----------------------------------------------------------------------------
(* The models: interfaces of the one declared network, a pod or a Multus   *)
(* network, over every requested model and binding, with the host flag,    *)
(* the multi-queue request and the requested vCPUs.                        *)

ModelsInterfaces ==
    {Interface(NetName(1), m, b, <<>>, "", <<>>) :
        m \in {"", "virtio", "e1000", "rtl8139"},
        b \in {{}} \cup {{x} : x \in Bindings}}

ModelsVMIs(maxIfaces) ==
    {VMI(<<Network(NetName(1), kind[1], kind[2])>>, ifaces, f[1], f[2]) :
        kind \in {<<PodNetwork(""), <<>>>>, <<<<>>, MultusNetwork(FALSE)>>},
        ifaces \in SeqsUpTo(ModelsInterfaces, maxIfaces),
        f \in {<<<<>>, 4>>, <<Ptr(TRUE), 9>>, <<Ptr(FALSE), 4>>}}

InitModels ==
    InitWith(ModelsVMIs(MaxIfaces), {NoCmd},
             {[PodNetInterfaces |-> ReportedInterfaces]}, SpecEnvs)

SpecModels == InitModels /\ [][Next]_vars

----------------------------------------------------------------------------
(* The user-mode network argument of one slirp-bound interface on a pod    *)
(* network, over the lists of forwarded ports.                             *)

PortForwards ==
    {[Port |-> p, Protocol |-> q] :
        p \in {0, 80, 443}, q \in {"", "TCP", "tcp", "UDP"}}

PortsVMIs(maxPorts) ==
    {VMI(<<Network(NetName(1), PodNetwork(""), <<>>)>>,
         <<Interface(NetName(1), "", {"Slirp"}, <<>>, "", ports)>>, <<>>, 4) :
        ports \in SeqsUpTo(PortForwards, maxPorts)}

InitPorts ==
    InitWith(PortsVMIs(MaxPorts), {NoCmd}, {[PodNetInterfaces |-> <<>>]},
             {[virtioNetProhibited |-> FALSE, resolv |-> ResolvOk(doms)] :
                 doms \in {<<>>, <<"svc.local">>}})

SpecPorts == InitPorts /\ [][Next]_vars

----------------------------------------------------------------------------
(* The pod interface name resolver on its own: getPodInterfaceName for any *)
(* name, over specs of up to MaxPodNets valid networks.                    *)

PodNames == {NetName(k) : k \in 1..MaxPodNets}

PodNameVMIs(maxPodNets) ==
    {VMI(nets, ifaces, <<>>, 4) :
        nets \in NetLists({<<PodNetwork(""), <<>>>>, <<<<>>, MultusNetwork(FALSE)>>,
                           <<<<>>, MultusNetwork(TRUE)>>}, maxPodNets),
        ifaces \in SeqsUpTo({Interface(n, "", {"Vhostuser"}, <<>>, "", <<>>) :
                                n \in PodNames}, maxPodNets)}

InitPodName ==
    /\ vmi \in PodNameVMIs(MaxPodNets)
    /\ domain = NoCmd
    /\ c = [PodNetInterfaces |-> <<>>]
    /\ env = [virtioNetProhibited |-> FALSE, resolv |-> ResolvOk(<<>>)]
    /\ pre = [vmi |-> vmi, domain |-> domain]
    /\ pc = "resolve"
    /\ i = 0
    /\ networks = <<>>
    /\ domainInterfaces = <<>>
    /\ ret = NoReturn
    /\ NoWebhookCall

(* A call of getPodInterfaceName(vmi, ifaceName) *)
ResolvePodInterfaceName ==
    /\ pc = "resolve"
    /\ \E ifaceName \in PodNames :
          LET r == getPodInterfaceName(vmi, ifaceName) IN
          ret' = [kind |-> IF r.panic THEN "panic"
                           ELSE IF r.err # NilErr THEN "error" ELSE "name",
                  ifaceName |-> ifaceName, name |-> r.name, err |-> r.err]
    /\ pc' = "resolved"
    /\ UNCHANGED <<vmi, domain, c, env, pre, i, networks, domainInterfaces>>
    /\ UNCHANGED webhookVars

NextPodName == ResolvePodInterfaceName

SpecPodName == InitPodName /\ [][NextPodName]_vars

----------------------------------------------------------------------------
(* One vhost-user interface and one reported device, over the reported     *)
(* socket paths.                                                           *)

ExamplePath == <<"/", "var", "/", "run", "/", "vhu", "/", "vhu1.sock">>

SocketPaths ==
    SeqsUpTo({"/", "run", "vhu1.sock"}, MaxPathLen) \cup {ExamplePath}

VhostPathVMIs ==
    {VMI(<<Network(NetName(1), kind[1], kind[2])>>,
         <<Interface(NetName(1), "", {"Vhostuser"}, <<>>, "", <<>>)>>, <<>>, 4) :
        kind \in {<<PodNetwork(""), <<>>>>, <<<<>>, MultusNetwork(FALSE)>>}}

VhostPathContexts ==
    {[PodNetInterfaces |-> <<>>]} \cup
    {[PodNetInterfaces |->
         Ptr([Interface |-> <<PodNetInterface(DeviceInfoTypeVHostUser, n, path, m)>>])] :
        n \in {<<"eth0">>, <<"default", "/", "net1">>},
        path \in SocketPaths, m \in {"client", "server"}}

InitVhostPath ==
    InitWith(VhostPathVMIs, {NoCmd}, VhostPathContexts,
             {[virtioNetProhibited |-> FALSE, resolv |-> ResolvOk(<<>>)]})

SpecVhostPath == InitVhostPath /\ [][Next]_vars

----------------------------------------------------------------------------
(* One vhost-user interface over the device-info lists the CNI layer may   *)
(* report: absent, or up to MaxEntries entries of a vhost-user or another  *)
(* device type, named with or without a namespace prefix.                  *)

ReportedSockets ==
    {<<<<"a.sock">>, "client">>, <<<<"/", "run", "/", "b.sock">>, "server">>}

InfoEntries ==
    {PodNetInterface(t, n, s[1], s[2]) :
        t \in {DeviceInfoTypeVHostUser, "memif"},
        n \in {<<"eth0">>, <<"default", "/", "net1">>, <<"ns", "/", "eth0">>},
        s \in ReportedSockets}

VhostInfoContexts(maxEntries) ==
    {[PodNetInterfaces |-> <<>>]} \cup
    {[PodNetInterfaces |-> Ptr([Interface |-> entries])] :
        entries \in SeqsUpTo(InfoEntries, maxEntries)}

InitVhostInfo ==
    InitWith(VhostPathVMIs, {NoCmd}, VhostInfoContexts(MaxEntries),
             {[virtioNetProhibited |-> FALSE, resolv |-> ResolvOk(<<>>)]})

SpecVhostInfo == InitVhostInfo /\ [][Next]_vars

----------------------------------------------------------------------------
(* Tap-backed interfaces: bridge, masquerade and macvtap bindings, with    *)
(* and without a boot order, on pod, Multus and default Multus networks.   *)

TapInterfaces ==
    {Interface(n, "", {b}, o, "", <<>>) :
        n \in Names, b \in {"Bridge", "Masquerade", "Macvtap"},
        o \in {<<>>, Ptr(1), Ptr(2)}}

TapVMIs(maxNets, maxIfaces) ==
    {VMI(nets, ifaces, <<>>, 4) :
        nets \in NetLists({<<PodNetwork(""), <<>>>>, <<<<>>, MultusNetwork(FALSE)>>,
                           <<<<>>, MultusNetwork(TRUE)>>}, maxNets),
        ifaces \in SeqsUpTo(TapInterfaces, maxIfaces)}

InitTap ==
    InitWith(TapVMIs(MaxNets, MaxIfaces), {NoCmd}, {[PodNetInterfaces |-> <<>>]},
             {[virtioNetProhibited |-> FALSE, resolv |-> ResolvOk(<<>>)]})

SpecTap == InitTap /\ [][Next]_vars

----------------------------------------------------------------------------
(* The user-mode network argument of one slirp-bound interface on a pod    *)
(* network: unset, valid and malformed CIDR, a failing resolver lookup or  *)
(* up to MaxDomains search domains, and forwarded ports.                   *)

SlirpPorts ==
    {[Port |-> 80, Protocol |-> ""], [Port |-> 80, Protocol |-> "TCP"],
     [Port |-> 443, Protocol |-> "UDP"], [Port |-> 0, Protocol |-> ""]}

SlirpValueVMIs(maxPorts) ==
    {VMI(<<Network(NetName(1), PodNetwork(cidr), <<>>)>>,
         <<Interface(NetName(1), "", {"Slirp"}, <<>>, "", ports)>>, <<>>, 4) :
        cidr \in {"", "192.168.0.0/16", "192.168.0.0/33"},
        ports \in SeqsUpTo(SlirpPorts, maxPorts)}

ResolvResults ==
    {[err |-> "open /etc/resolv.conf: no such file or directory", searchDomains |-> <<>>]}
        \cup {ResolvOk(doms) : doms \in SeqsUpTo({"a.local", "b.local"}, MaxDomains)}

InitSlirpValue ==
    InitWith(SlirpValueVMIs(MaxPorts), {NoCmd}, {[PodNetInterfaces |-> <<>>]},
             {[virtioNetProhibited |-> FALSE, resolv |-> r] : r \in ResolvResults})

SpecSlirpValue == InitSlirpValue /\ [][Next]_vars

----------------------------------------------------------------------------
(* The domain's arguments: interfaces of every binding on pod and Multus   *)
(* networks, slirp-bound ones with and without forwarded ports, from a     *)
(* domain without a command line, with an empty one and with arguments.    *)

ArgsInterfaces ==
    {Interface(n, "", b, <<>>, "", <<>>) :
        n \in Names, b \in {{}} \cup {{x} : x \in Bindings}}
    \cup {Interface(n, "", {"Slirp"}, <<>>, "",
                    <<[Port |-> 80, Protocol |-> ""], [Port |-> 80, Protocol |-> "UDP"]>>) :
             n \in Names}

ArgsVMIs(maxNets, maxIfaces) ==
    {VMI(nets, ifaces, <<>>, 4) :
        nets \in NetLists({<<PodNetwork(""), <<>>>>, <<<<>>, MultusNetwork(FALSE)>>},
                          maxNets),
        ifaces \in SeqsUpTo(ArgsInterfaces, maxIfaces)}

InitArgs ==
    InitWith(ArgsVMIs(MaxNets, MaxIfaces),
             {NoCmd, CmdWith(<<>>), CmdWith(<<"-S", "-nographic">>)},
             {[PodNetInterfaces |-> ReportedInterfaces]},
             {[virtioNetProhibited |-> FALSE, resolv |-> ResolvOk(<<"svc.local">>)]})

SpecArgs == InitArgs /\ [][Next]_vars

----------------------------------------------------------------------------
(* The queue count: tap-backed virtio interfaces of one network, with the  *)
(* multi-queue request unset, set and cleared, over the requested vCPUs.   *)

QueuesInterfaces ==
    {Interface(NetName(1), m, {b}, <<>>, "", <<>>) :
        m \in {"", "e1000"}, b \in {"Bridge", "Macvtap"}}

QueuesVMIs(maxIfaces, maxVCPUs) ==
    {VMI(<<Network(NetName(1), <<>>, MultusNetwork(FALSE))>>, ifaces, mq, n) :
        ifaces \in SeqsUpTo(QueuesInterfaces, maxIfaces),
        mq \in {<<>>, Ptr(TRUE), Ptr(FALSE)},
        n \in 1..maxVCPUs}

InitQueues ==
    InitWith(QueuesVMIs(MaxIfaces, MaxVCPUs), {NoCmd}, {[PodNetInterfaces |-> <<>>]},
             {[virtioNetProhibited |-> FALSE, resolv |-> ResolvOk(<<>>)]})

SpecQueues == InitQueues /\ [][Next]_vars

----------------------------------------------------------------------------
(* Interfaces of one network with any set of bindings, none and several    *)
(* included, with the model unset.                                         *)

BindingsInterfaces ==
    {Interface(NetName(1), "", b, <<>>, "", <<>>) : b \in SUBSET Bindings}

BindingsVMIs(maxIfaces) ==
    {VMI(<<Network(NetName(1), kind[1], kind[2])>>, ifaces, <<>>, 4) :
        kind \in {<<PodNetwork(""), <<>>>>, <<<<>>, MultusNetwork(FALSE)>>},
        ifaces \in SeqsUpTo(BindingsInterfaces, maxIfaces)}

InitBindings ==
    InitWith(BindingsVMIs(MaxIfaces), {NoCmd},
             {[PodNetInterfaces |-> ReportedInterfaces]}, SpecEnvs)

SpecBindings == InitBindings /\ [][Next]_vars

(* createDomainInterfaces as a function of its arguments: what it returns  *)
(* and the domain as it leaves it.                                         *)
RECURSIVE convertFrom(_, _, _, _, _, _, _)
convertFrom(v0, dom, ctx, virtioNetProhibited, nets, idx, recs) ==
    IF idx > Len(v0.Interfaces)
    THEN [ret |-> [kind |-> "ok", ifaces |-> recs, err |-> NilErr], domain |-> dom]
    ELSE LET r == loopBody(v0, dom, ctx, virtioNetProhibited, nets, idx)
             v == [v0 EXCEPT !.Interfaces[idx].Ports = r.Ports]
         IN
         CASE r.kind = "continue" ->
                convertFrom(v, r.domain, ctx, virtioNetProhibited, nets, idx + 1, recs)
           [] r.kind = "append" ->
                convertFrom(v, r.domain, ctx, virtioNetProhibited, nets, idx + 1,
                            appendDomainInterface(recs, r.rec))
           [] r.kind = "error" ->
                [ret |-> [kind |-> "error", ifaces |-> <<>>, err |-> r.err],
                 domain |-> r.domain]
           [] r.kind = "panic" ->
                [ret |-> [kind |-> "panic", ifaces |-> <<>>, err |-> NilErr],
                 domain |-> r.domain]

createDomainInterfaces(v, dom, ctx, virtioNetProhibited) ==
    LET err == validateNetworksTypes(v.Networks) IN
    IF err # NilErr
    THEN [ret |-> [kind |-> "error", ifaces |-> <<>>, err |-> err], domain |-> dom]
    ELSE convertFrom(v, dom, ctx, virtioNetProhibited,
                     indexNetworksByName(v.Networks), 1, <<>>)

----------------------------------------------------------------------------
(* Networks that may share a name: every list of up to MaxNets valid       *)
(* networks named n1 or n2, with bridge, slirp and macvtap interfaces.     *)

DuplicateNetworks ==
    {Network(n, kind[1], kind[2]) :
        n \in Names,
        kind \in {<<PodNetwork(""), <<>>>>, <<PodNetwork("192.168.0.0/16"), <<>>>>,
                  <<<<>>, MultusNetwork(FALSE)>>, <<<<>>, MultusNetwork(TRUE)>>}}

DuplicatesVMIs(maxNets, maxIfaces) ==
    {VMI(nets, ifaces, <<>>, 4) :
        nets \in SeqsUpTo(DuplicateNetworks, maxNets),
        ifaces \in SeqsUpTo({Interface(n, "", {b}, <<>>, "", <<>>) :
                                n \in Names, b \in {"Bridge", "Slirp", "Macvtap"}},
                            maxIfaces)}

InitDuplicates ==
    InitWith(DuplicatesVMIs(MaxNets, MaxIfaces), {NoCmd}, {[PodNetInterfaces |-> <<>>]},
             {[virtioNetProhibited |-> FALSE, resolv |-> ResolvOk(<<>>)]})

SpecDuplicates == InitDuplicates /\ [][Next]_vars

----------------------------------------------------------------------------
(* The validating webhook's check of a VirtualMachineSpec                  *)
(* (validateVirtualMachineSpec and the validators it calls).               *)
(* A pointer field of a disk or of a volume is the boolean "is set"; the   *)
(* cloud-init source is a pointer to its record. A text of which the code  *)
(* reads only the length is that length; a base64 text is its length, the  *)
(* number of bytes DecodeString returns and whether it returns an error.   *)

MaxVolumes == 2

MaxDisks == 2

cloudInitMaxLen == 2048

arrayLenMax == 256

CauseTypeFieldValueInvalid == "FieldValueInvalid"

(* The field prefix admitVMs passes *)
fieldPrefix == "spec."

StatusCause(message, field) ==
    [Type |-> CauseTypeFieldValueInvalid, Message |-> message, Field |-> field]

(* %d of a Go index; sequences of the model start at 1 *)
Idx(k) == ToString(k - 1)

Count(flags) == Cardinality({k \in DOMAIN flags : flags[k]})

(* The body of the loop of validateDisks, from disk k on *)
RECURSIVE validateDisksFrom(_, _, _, _)
validateDisksFrom(prefix, disks, k, nameMap) ==
    IF k > Len(disks) THEN <<>>
    ELSE LET disk == disks[k]
             ok == disk.Name \in DOMAIN nameMap
             sameName ==
                 IF ok
                 THEN <<StatusCause(prefix \o "[" \o Idx(k) \o "] and " \o prefix
                                        \o "disks[" \o ToString(nameMap[disk.Name])
                                        \o "] must not have the same Name.",
                                    prefix \o "[" \o Idx(k) \o "].name")>>
                 ELSE <<>>
             deviceTargetSetCount ==
                 Count(<<disk.Disk, disk.LUN, disk.Floppy, disk.CDRom>>)
             targets ==
                 IF deviceTargetSetCount > 1
                 THEN <<StatusCause(prefix \o "[" \o Idx(k)
                                        \o "] can only have a single target type defined",
                                    prefix \o "[" \o Idx(k) \o "]")>>
                 ELSE <<>>
         IN  sameName \o targets \o
             validateDisksFrom(prefix, disks, k + 1,
                               IF ok THEN nameMap
                               ELSE (disk.Name :> (k - 1)) @@ nameMap)

validateDisks(prefix, disks) ==
    IF Len(disks) > arrayLenMax
    THEN <<StatusCause(prefix \o " list exceeds the " \o ToString(arrayLenMax)
                           \o " element limit in length", prefix)>>
    ELSE validateDisksFrom(prefix, disks, 1, <<>>)

(* The cloud-init checks of one volume *)
validateCloudInit(prefix, k, noCloud) ==
    LET hasSecret == /\ ~IsNil(noCloud.UserDataSecretRef)
                     /\ Deref(noCloud.UserDataSecretRef).Name # ""
        hasBase64 == noCloud.UserDataBase64.len # 0
        hasUserData == noCloud.UserData # 0
        userDataSourceCount == Count(<<hasSecret, hasBase64, hasUserData>>)
        userDataLen == IF hasUserData THEN noCloud.UserData
                       ELSE IF hasBase64 THEN noCloud.UserDataBase64.decoded
                       ELSE 0
        here == prefix \o "[" \o Idx(k) \o "].cloudInitNoCloud"
    IN  (IF hasBase64 /\ noCloud.UserDataBase64.err
         THEN <<StatusCause(here \o ".userDataBase64 is not a valid base64 value.",
                            here \o ".userDataBase64")>>
         ELSE <<>>)
        \o
        (IF userDataSourceCount # 1
         THEN <<StatusCause(here \o " must have one exactly one userdata source set.",
                            here)>>
         ELSE <<>>)
        \o
        (IF userDataLen > cloudInitMaxLen
         THEN <<StatusCause(here \o " userdata exceeds " \o ToString(cloudInitMaxLen)
                                \o " byte limit", here)>>
         ELSE <<>>)

(* The body of the loop of validateVolumes, from volume k on *)
RECURSIVE validateVolumesFrom(_, _, _, _)
validateVolumesFrom(prefix, volumes, k, nameMap) ==
    IF k > Len(volumes) THEN <<>>
    ELSE LET vol == volumes[k]
             ok == vol.Name \in DOMAIN nameMap
             sameName ==
                 IF ok
                 THEN <<StatusCause(prefix \o "[" \o Idx(k) \o "] and " \o prefix
                                        \o "[" \o ToString(nameMap[vol.Name])
                                        \o "] must not have the same Name.",
                                    prefix \o "[" \o Idx(k) \o "].name")>>
                 ELSE <<>>
             volumeSourceSetCount ==
                 Count(<<vol.PersistentVolumeClaim, ~IsNil(vol.CloudInitNoCloud),
                         vol.RegistryDisk, vol.Ephemeral, vol.EmptyDisk>>)
             sources ==
                 IF volumeSourceSetCount # 1
                 THEN <<StatusCause(prefix \o "[" \o Idx(k)
                                        \o "] must have exactly one source type set",
                                    prefix \o "[" \o Idx(k) \o "]")>>
                 ELSE <<>>
             cloudInit ==
                 IF ~IsNil(vol.CloudInitNoCloud)
                 THEN validateCloudInit(prefix, k, Deref(vol.CloudInitNoCloud))
                 ELSE <<>>
         IN  sameName \o sources \o cloudInit \o
             validateVolumesFrom(prefix, volumes, k + 1,
                                 IF ok THEN nameMap
                                 ELSE (vol.Name :> (k - 1)) @@ nameMap)

validateVolumes(prefix, volumes) ==
    IF Len(volumes) > arrayLenMax
    THEN <<StatusCause(prefix \o " list exceeds the " \o ToString(arrayLenMax)
                           \o " element limit in length", prefix)>>
    ELSE validateVolumesFrom(prefix, volumes, 1, <<>>)

validateDevices(prefix, devices) == validateDisks(prefix \o "disks", devices.Disks)

validateDomainSpec(prefix, domainSpec) ==
    validateDevices(prefix \o "devices.", domainSpec.Devices)

(* Where &volume points in iteration k of "for _, volume := range": the    *)
(* language versions before Go 1.22 declare one variable for the whole     *)
(* loop, Go 1.22 and later one per iteration; the sources name no language *)
(* version, so the build decides.                                          *)
addressOfVolume(loopvar, k) == IF loopvar = "per-loop" THEN 1 ELSE k

diskPath(k) == fieldPrefix \o "domain.devices.disks[" \o Idx(k) \o "]"

volumeNotFound(k, disk) ==
    StatusCause(diskPath(k) \o ".volumeName '" \o disk.VolumeName \o "' not found.",
                diskPath(k) \o ".volumeName")

sameVolumeName(k, otherIdx) ==
    StatusCause(diskPath(k) \o " and " \o fieldPrefix \o "domain.devices.disks["
                    \o ToString(otherIdx) \o "] reference the same volumeName.",
                diskPath(k) \o ".volumeName")

lunNeedsPersistentVolumeClaim(k) ==
    StatusCause(diskPath(k)
                    \o ".lun can only be mapped to a PersistentVolumeClaim volume.",
                diskPath(k) \o ".lun")

(* Entry of validateVirtualMachineSpec: the two length limits *)
CheckLimits ==
    /\ pc = "review"
    /\ IF Len(spec.Domain.Devices.Disks) > arrayLenMax
       THEN /\ causes' = <<StatusCause(
                    fieldPrefix \o "domain.devices.disks list exceeds the "
                        \o ToString(arrayLenMax) \o " element limit in length",
                    fieldPrefix \o "domain.devices.disks")>>
            /\ pc' = "reviewed"
            /\ UNCHANGED i
       ELSE IF Len(spec.Volumes) > arrayLenMax
       THEN /\ causes' = <<StatusCause(
                    fieldPrefix \o "volumes list exceeds the "
                        \o ToString(arrayLenMax) \o " element limit in length",
                    fieldPrefix \o "volumes")>>
            /\ pc' = "reviewed"
            /\ UNCHANGED i
       ELSE /\ pc' = "volumes"
            /\ i' = 1
            /\ UNCHANGED causes
    /\ UNCHANGED <<vmi, domain, c, env, pre, networks, domainInterfaces, ret>>
    /\ UNCHANGED <<spec, volume, volumeNameMap, volumeToDiskIndexMap>>

(* One iteration of "for _, volume := range spec.Volumes": the element is  *)
(* copied into the range variable and the variable's address is stored.    *)
IndexVolume ==
    /\ pc = "volumes"
    /\ i <= Len(spec.Volumes)
    /\ LET address == addressOfVolume(env.loopvar, i) IN
       /\ volume' = (address :> spec.Volumes[i]) @@ volume
       /\ volumeNameMap' = (spec.Volumes[i].Name :> address) @@ volumeNameMap
    /\ i' = i + 1
    /\ UNCHANGED <<vmi, domain, c, env, pre, pc, networks, domainInterfaces, ret>>
    /\ UNCHANGED <<spec, volumeToDiskIndexMap, causes>>

(* The volumes are indexed: the loop over the disks begins *)
RangeDisks ==
    /\ pc = "volumes"
    /\ i > Len(spec.Volumes)
    /\ pc' = "disks"
    /\ i' = 1
    /\ UNCHANGED <<vmi, domain, c, env, pre, networks, domainInterfaces, ret>>
    /\ UNCHANGED webhookVars

(* One iteration of the loop over the disks *)
ValidateDisk ==
    /\ pc = "disks"
    /\ i <= Len(spec.Domain.Devices.Disks)
    /\ LET disk == spec.Domain.Devices.Disks[i]
           volumeExists == disk.VolumeName \in DOMAIN volumeNameMap
           ok == disk.VolumeName \in DOMAIN volumeToDiskIndexMap
       IN
       /\ causes' = causes
             \o (IF ~volumeExists THEN <<volumeNotFound(i, disk)>> ELSE <<>>)
             \o (IF ok
                 THEN <<sameVolumeName(i, volumeToDiskIndexMap[disk.VolumeName])>>
                 ELSE <<>>)
             \o (IF /\ disk.LUN
                    /\ volumeExists
                    /\ ~volume[volumeNameMap[disk.VolumeName]].PersistentVolumeClaim
                 THEN <<lunNeedsPersistentVolumeClaim(i)>>
                 ELSE <<>>)
       /\ volumeToDiskIndexMap' =
             IF ok THEN volumeToDiskIndexMap
             ELSE (disk.VolumeName :> (i - 1)) @@ volumeToDiskIndexMap
    /\ i' = i + 1
    /\ UNCHANGED <<vmi, domain, c, env, pre, pc, networks, domainInterfaces, ret>>
    /\ UNCHANGED <<spec, volume, volumeNameMap>>

(* After the disks: the causes of validateDomainSpec and validateVolumes   *)
(* are appended and the list is returned.                                  *)
ReturnCauses ==
    /\ pc = "disks"
    /\ i > Len(spec.Domain.Devices.Disks)
    /\ causes' = causes
          \o validateDomainSpec(fieldPrefix \o "domain.", spec.Domain)
          \o validateVolumes(fieldPrefix \o "volumes", spec.Volumes)
    /\ pc' = "reviewed"
    /\ UNCHANGED <<vmi, domain, c, env, pre, i, networks, domainInterfaces, ret>>
    /\ UNCHANGED <<spec, volume, volumeNameMap, volumeToDiskIndexMap>>

NextWebhook ==
    CheckLimits \/ IndexVolume \/ RangeDisks \/ ValidateDisk \/ ReturnCauses

(* Inputs: volumes named v1 or v2 with one source, a volume without any    *)
(* source, a cloud-init volume that breaks every cloud-init rule and one  *)
(* that breaks none; disks named d1 or d2 with a LUN target on either      *)
(* volume, a disk with a Disk target and a disk with both targets.         *)

NoText == [len |-> 0, decoded |-> 0, err |-> FALSE]

Volume(name, pvc, registryDisk, cloudInit) ==
    [Name |-> name, PersistentVolumeClaim |-> pvc, CloudInitNoCloud |-> cloudInit,
     RegistryDisk |-> registryDisk, Ephemeral |-> FALSE, EmptyDisk |-> FALSE]

Disk(name, volumeName, disk, lun) ==
    [Name |-> name, VolumeName |-> volumeName, Disk |-> disk, LUN |-> lun,
     Floppy |-> FALSE, CDRom |-> FALSE]

WebhookVolumes ==
    {Volume(n, s[1], s[2], <<>>) :
        n \in {"v1", "v2"}, s \in {<<TRUE, FALSE>>, <<FALSE, TRUE>>}}
    \cup {Volume("v2", FALSE, FALSE, <<>>),
          Volume("v1", FALSE, FALSE,
                 Ptr([UserDataSecretRef |-> Ptr([Name |-> "secret"]),
                      UserDataBase64 |-> [len |-> 4000, decoded |-> 2999, err |-> TRUE],
                      UserData |-> 0])),
          Volume("v2", FALSE, FALSE,
                 Ptr([UserDataSecretRef |-> <<>>, UserDataBase64 |-> NoText,
                      UserData |-> 100]))}

WebhookDisks ==
    {Disk(n, v, FALSE, TRUE) : n \in {"d1", "d2"}, v \in {"v1", "v2"}}
    \cup {Disk("d2", "v1", TRUE, FALSE), Disk("d1", "v1", TRUE, TRUE)}

WebhookSpecs(maxVolumes, maxDisks) ==
    {[Volumes |-> volumes, Domain |-> [Devices |-> [Disks |-> disks]]] :
        volumes \in SeqsUpTo(WebhookVolumes, maxVolumes),
        disks \in SeqsUpTo(WebhookDisks, maxDisks)}

InitWebhook ==
    /\ spec \in WebhookSpecs(MaxVolumes, MaxDisks)
    /\ env \in {[virtioNetProhibited |-> FALSE, resolv |-> ResolvOk(<<>>),
                 loopvar |-> l] : l \in {"per-loop", "per-iteration"}}
    /\ vmi = VMI(<<>>, <<>>, <<>>, 4)
    /\ domain = NoCmd
    /\ c = [PodNetInterfaces |-> <<>>]
    /\ pre = [vmi |-> vmi, domain |-> domain]
    /\ pc = "review"
    /\ i = 0
    /\ networks = <<>>
    /\ domainInterfaces = <<>>
    /\ ret = NoReturn
    /\ volume = <<>>
    /\ volumeNameMap = <<>>
    /\ volumeToDiskIndexMap = <<>>
    /\ causes = <<>>

SpecWebhook == InitWebhook /\ [][NextWebhook]_vars

----------------------------------------------------------------------------
(* Vocabulary of the properties *)

Returned == pc = "done"

Succeeded == pc = "done" /\ ret.kind = "ok"

ReturnedError == pc = "done" /\ ret.kind = "error"

Crashed == pc = "done" /\ ret.kind = "panic"

(* The domain's command-line argument sequence *)
ArgsOf(dom) == IF IsNil(dom.QEMUCmd) THEN <<>> ELSE Deref(dom.QEMUCmd).QEMUArg

NotSRIOV(iface) == ~iface.SRIOV

(* The declared interfaces that are not SR-IOV-bound, in declaration order *)
Emitting == SelectSeq(vmi.Interfaces, NotSRIOV)

BindingsOf(iface) ==
    {b \in Bindings :
        \/ b = "Bridge" /\ iface.Bridge
        \/ b = "Masquerade" /\ iface.Masquerade
        \/ b = "Slirp" /\ iface.Slirp
        \/ b = "Macvtap" /\ iface.Macvtap
        \/ b = "SRIOV" /\ iface.SRIOV
        \/ b = "Vhostuser" /\ iface.Vhostuser}

(* Both sources or neither: what the Network Type Validator rejects *)
InvalidType(network) == IsNil(network.Pod) <=> IsNil(network.Multus)

InvalidNetworks == {k \in DOMAIN vmi.Networks : InvalidType(vmi.Networks[k])}

FirstInvalid == CHOOSE k \in InvalidNetworks : \A j \in InvalidNetworks : k <= j

DeclaredNames == {vmi.Networks[k].Name : k \in DOMAIN vmi.Networks}

NetworkTypeErrors ==
    {"network " \o n \o " must have only one network type" : n \in DeclaredNames}
        \cup {"network " \o n \o " must have a network type" : n \in DeclaredNames}

(* The effective model as the specification words it *)
EffectiveModel(iface) ==
    IF "Slirp" \in BindingsOf(iface)
    THEN IF iface.Model \in {"e1000", "rtl8139"} THEN iface.Model ELSE "e1000"
    ELSE IF iface.Model = "" THEN "virtio" ELSE iface.Model

MultiQueueRequested ==
    vmi.NetworkInterfaceMultiQueue = Ptr(TRUE)

----------------------------------------------------------------------------
(* C1: after a successful createDomainInterfaces the returned list holds   *)
(* exactly one record per declared interface that is not SR-IOV-bound, in  *)
(* declaration order: the k-th record's alias is the name of the k-th      *)
(* non-SR-IOV interface.                                                   *)
C1_OneRecordPerNonSRIOVInterface ==
    Succeeded =>
        /\ Len(ret.ifaces) = Len(Emitting)
        /\ \A k \in DOMAIN Emitting :
              /\ ~IsNil(ret.ifaces[k].Alias)
              /\ Deref(ret.ifaces[k].Alias).Name = Emitting[k].Name

(* A success with an SR-IOV interface declared first and two differently   *)
(* named interfaces in all: one record, for the second interface.          *)
C1_Witness ==
    /\ Succeeded
    /\ Len(vmi.Interfaces) = 2
    /\ vmi.Interfaces[1].SRIOV /\ ~vmi.Interfaces[2].SRIOV
    /\ vmi.Interfaces[1].Name # vmi.Interfaces[2].Name
    /\ Len(ret.ifaces) = 1

(* C2: whenever createDomainInterfaces returns an error it returns no      *)
(* record and the domain's argument sequence is what it was before the     *)
(* call, also when slirp-bound interfaces were processed before the        *)
(* failing one.                                                            *)
C2_ErrorLeavesNoRecordAndArgsUnchanged ==
    ReturnedError =>
        /\ ret.ifaces = <<>>
        /\ ArgsOf(domain) = ArgsOf(pre.domain)

(* C3: the call fails with the network-type error iff some declared        *)
(* network has both a pod and a Multus source or neither; the error names  *)
(* the first such network, and the failure comes before any interface is   *)
(* processed: no record, no argument, whatever the interfaces reference.   *)
C3_NetworkTypeErrorIffInvalidNetwork ==
    Returned =>
        /\ (ret.kind = "error" /\ ret.err \in NetworkTypeErrors)
              <=> InvalidNetworks # {}
        /\ InvalidNetworks # {} =>
              LET network == vmi.Networks[FirstInvalid] IN
              /\ ret.err = "network " \o network.Name \o
                     (IF IsNil(network.Pod) THEN " must have a network type"
                      ELSE " must have only one network type")
              /\ ret.ifaces = <<>>
              /\ i = 0
              /\ domainInterfaces = <<>>
              /\ domain = pre.domain

(* The call failed on the second network, which no interface references,   *)
(* while the only interface is slirp-bound on the valid first network.     *)
C3_Witness ==
    /\ ReturnedError
    /\ Len(vmi.Networks) = 2
    /\ InvalidNetworks = {2}
    /\ Len(vmi.Interfaces) = 1
    /\ vmi.Interfaces[1].Name = vmi.Networks[1].Name
    /\ vmi.Interfaces[1].Slirp

(* C4: the record of an interface with exactly one binding set, not        *)
(* SR-IOV, has the type of that binding: ethernet for bridge, masquerade   *)
(* and macvtap, user for slirp, vhostuser for vhost-user, and never        *)
(* another type.                                                           *)
TypeOfBinding(b) ==
    CASE b \in {"Bridge", "Masquerade", "Macvtap"} -> "ethernet"
      [] b = "Slirp" -> "user"
      [] b = "Vhostuser" -> "vhostuser"

C4_RecordTypeFollowsBinding ==
    Succeeded /\ Len(ret.ifaces) = Len(Emitting) =>
        \A k \in DOMAIN Emitting :
            Cardinality(BindingsOf(Emitting[k])) = 1 =>
                /\ ret.ifaces[k].Type \in {"ethernet", "user", "vhostuser"}
                /\ \A b \in BindingsOf(Emitting[k]) :
                      ret.ifaces[k].Type = TypeOfBinding(b)

(* A success with a bridge record and a vhost-user record *)
C4_Witness ==
    /\ Succeeded
    /\ Len(ret.ifaces) = 2
    /\ BindingsOf(vmi.Interfaces[1]) = {"Bridge"}
    /\ BindingsOf(vmi.Interfaces[2]) = {"Vhostuser"}
    /\ ret.ifaces[1].Type = "ethernet"
    /\ ret.ifaces[2].Type = "vhostuser"

(* C5: the effective model is, for a slirp-bound interface, the requested  *)
(* model when that is e1000 or rtl8139 and e1000 otherwise; for any other  *)
(* binding the requested model when set and virtio when unset; the model   *)
(* of the emitted record is derived from it.                               *)
C5_EffectiveModel ==
    /\ \A k \in DOMAIN vmi.Interfaces :
          getInterfaceType(vmi.Interfaces[k]) = EffectiveModel(vmi.Interfaces[k])
    /\ Succeeded /\ Len(ret.ifaces) = Len(Emitting) =>
          \A k \in DOMAIN Emitting :
              /\ ~IsNil(ret.ifaces[k].Model)
              /\ Deref(ret.ifaces[k].Model).Type =
                     translateModel(c, EffectiveModel(Emitting[k]))

(* A success with a slirp interface that asked for virtio and one that     *)
(* asked for rtl8139: the records carry e1000 and rtl8139.                 *)
C5_Witness ==
    /\ Succeeded
    /\ Len(ret.ifaces) = 2
    /\ vmi.Interfaces[1].Slirp /\ vmi.Interfaces[1].Model = "virtio"
    /\ vmi.Interfaces[2].Slirp /\ vmi.Interfaces[2].Model = "rtl8139"
    /\ Deref(ret.ifaces[1].Model).Type = "e1000"
    /\ Deref(ret.ifaces[2].Model).Type = "rtl8139"

(* C6: with virtio network emulation prohibited, a conversion with some    *)
(* non-SR-IOV interface of effective model virtio returns an error and no  *)
(* record; without such an interface the flag causes no failure.           *)
VirtioWanted ==
    \E k \in DOMAIN vmi.Interfaces :
        ~vmi.Interfaces[k].SRIOV /\ EffectiveModel(vmi.Interfaces[k]) = "virtio"

C6_ProhibitedVirtioFails ==
    Returned /\ env.virtioNetProhibited /\ VirtioWanted =>
        ret.kind = "error" /\ ret.ifaces = <<>>

(* C7: in a successful conversion with multi-queue requested and virtio    *)
(* emulation permitted, every record of effective model virtio carries the *)
(* driver name "vhost" and driver.queues equal to the Queue Sizer result,  *)
(* whatever the binding that emitted it.                                   *)
C7_VirtioRecordsCarryVhostQueues ==
    Succeeded /\ MultiQueueRequested /\ ~env.virtioNetProhibited
              /\ Len(ret.ifaces) = Len(Emitting) =>
        \A k \in DOMAIN Emitting :
            EffectiveModel(Emitting[k]) = "virtio" =>
                /\ ~IsNil(ret.ifaces[k].Driver)
                /\ Deref(ret.ifaces[k].Driver).Name = "vhost"
                /\ Deref(ret.ifaces[k].Driver).Queues
                       = Ptr(CalculateNetworkQueues(vmi))

----------------------------------------------------------------------------
(* C8: for a ports list whose ports are all greater than 0, the built      *)
(* value holds exactly one hostfwd clause per distinct (protocol, port)    *)
(* pair, an empty protocol counting as TCP, rendered as                    *)
(* hostfwd=<lowercase protocol>::<port>-:<port>, in first-seen order.      *)
PairOf(forwardPort) ==
    <<IF forwardPort.Protocol = "" THEN "TCP" ELSE forwardPort.Protocol,
      forwardPort.Port>>

(* The positions at which a pair is seen for the first time *)
FirstSeen(ports) ==
    {k \in DOMAIN ports : \A j \in 1..(k - 1) : PairOf(ports[j]) # PairOf(ports[k])}

HostfwdClause(pair) ==
    ",hostfwd=" \o ToLower(pair[1]) \o "::" \o ToString(pair[2])
                \o "-:" \o ToString(pair[2])

RECURSIVE ClausesFrom(_, _)
ClausesFrom(ports, k) ==
    IF k > Len(ports) THEN ""
    ELSE (IF k \in FirstSeen(ports) THEN HostfwdClause(PairOf(ports[k])) ELSE "")
             \o ClausesFrom(ports, k + 1)

(* The value up to the port forwards: id, net and dnssearch clauses *)
ValueBeforePorts(iface, network) ==
    configDNSSearchName(configVMCIDR("user,id=" \o iface.Name, network).Value).Value

C8_OneHostfwdPerDistinctPair ==
    /\ Succeeded
    /\ Len(vmi.Interfaces) = 1
    /\ BindingsOf(vmi.Interfaces[1]) = {"Slirp"}
    /\ \A k \in DOMAIN vmi.Interfaces[1].Ports : vmi.Interfaces[1].Ports[k].Port > 0
    => ArgsOf(domain) =
          <<"-netdev",
            ValueBeforePorts(vmi.Interfaces[1], vmi.Networks[1])
                \o ClausesFrom(vmi.Interfaces[1].Ports, 1)>>

(* Port 80 forwarded with no protocol, with TCP and with UDP: one tcp and  *)
(* one udp clause.                                                         *)
C8_Witness ==
    /\ Succeeded
    /\ vmi.Interfaces[1].Ports =
          <<[Port |-> 80, Protocol |-> ""], [Port |-> 80, Protocol |-> "TCP"],
            [Port |-> 80, Protocol |-> "UDP"]>>
    /\ env.resolv.searchDomains = <<>>
    /\ ArgsOf(domain) =
          <<"-netdev",
            "user,id=n1,net=10.0.2.0/24,hostfwd=tcp::80-:80,hostfwd=udp::80-:80">>

(* C9: for every interface attached to a declared network the pod          *)
(* interface name is net<k> when the network is a secondary Multus         *)
(* attachment, k being its 1-based position among the secondary Multus     *)
(* networks in declaration order, and eth0 otherwise.                      *)
NetworkNamed(name) ==
    CHOOSE k \in DOMAIN vmi.Networks : vmi.Networks[k].Name = name

SecondaryUpTo(k) ==
    Cardinality({j \in 1..k : isSecondaryMultusNetwork(vmi.Networks[j])})

ExpectedPodInterfaceName(name) ==
    LET k == NetworkNamed(name) IN
    IF ~IsNil(vmi.Networks[k].Multus) /\ ~Deref(vmi.Networks[k].Multus).Default
    THEN "net" \o ToString(SecondaryUpTo(k))
    ELSE "eth0"

C9_PodInterfaceName ==
    /\ pc = "resolved"
    /\ \E k \in DOMAIN vmi.Interfaces : vmi.Interfaces[k].Name = ret.ifaceName
    /\ \E k \in DOMAIN vmi.Networks : vmi.Networks[k].Name = ret.ifaceName
    => /\ ret.kind = "name"
       /\ ret.name = ExpectedPodInterfaceName(ret.ifaceName)

(* C10: the record of a vhost-user interface with a matching device-info   *)
(* entry has type vhostuser, source kind unix, the reported mode,          *)
(* target.device the part of the reported path after its last "/",         *)
(* source.path the reported path when it contains a "/" and the socket     *)
(* directory followed by the path otherwise, and receive and transmit      *)
(* queue sizes 1024.                                                       *)
SlashesOf(path) == {k \in DOMAIN path : path[k] = "/"}

AfterLastSlash(path) ==
    IF SlashesOf(path) = {} THEN path
    ELSE LET last == CHOOSE k \in SlashesOf(path) : \A j \in SlashesOf(path) : j <= k
         IN  SubSeq(path, last + 1, Len(path))

ReportedEntries ==
    IF IsNil(c.PodNetInterfaces) THEN <<>> ELSE Deref(c.PodNetInterfaces).Interface

MatchingEntries(podName) ==
    {k \in DOMAIN ReportedEntries :
        /\ ReportedEntries[k].DeviceType = "vhost-user"
        /\ Flatten(AfterLastSlash(ReportedEntries[k].NetworkStatus.Name)) = podName}

C10_VhostuserRecord ==
    Succeeded /\ Len(ret.ifaces) = Len(Emitting) =>
        \A k \in DOMAIN Emitting :
            BindingsOf(Emitting[k]) = {"Vhostuser"} =>
                LET ms == MatchingEntries(getPodInterfaceName(vmi, Emitting[k].Name).name)
                    first == CHOOSE m \in ms : \A j \in ms : m <= j
                    reported == ReportedEntries[first].NetworkStatus.DeviceInfo.VhostUser
                    rec == ret.ifaces[k]
                IN  /\ ms # {}
                    /\ rec.Type = "vhostuser"
                    /\ rec.Source.Type = "unix"
                    /\ rec.Source.Mode = reported.Mode
                    /\ rec.Target = Ptr([Device |-> Flatten(AfterLastSlash(reported.Path))])
                    /\ rec.Source.Path =
                          IF SlashesOf(reported.Path) # {}
                          THEN Flatten(reported.Path)
                          ELSE Flatten(VhostuserSocketDir) \o Flatten(reported.Path)
                    /\ ~IsNil(rec.Driver)
                    /\ Deref(rec.Driver).RxQueueSize = Ptr(1024)
                    /\ Deref(rec.Driver).TxQueueSize = Ptr(1024)

(* The reported path /var/run/vhu/vhu1.sock gives the device vhu1.sock and *)
(* the same source path.                                                   *)
C10_Witness ==
    /\ Succeeded
    /\ Len(ret.ifaces) = 1
    /\ ReportedEntries[1].NetworkStatus.DeviceInfo.VhostUser.Path = ExamplePath
    /\ ret.ifaces[1].Target = Ptr([Device |-> "vhu1.sock"])
    /\ ret.ifaces[1].Source.Path = "/var/run/vhu/vhu1.sock"

(* C11: getVhostuserInfo returns the socket path and mode of the first     *)
(* entry, in list order, of device type vhost-user whose network status    *)
(* name after its last "/" is the pod interface name; entries of another   *)
(* device type are ignored; it returns an error exactly when the list is   *)
(* absent or holds no such entry, and then the conversion of the           *)
(* vhost-user interface returns that error and no record.                  *)
FirstMatching(podName) ==
    CHOOSE m \in MatchingEntries(podName) : \A j \in MatchingEntries(podName) : m <= j

VhostuserInfoAsClaimed(podName) ==
    LET r == getVhostuserInfo(podName, c) IN
    /\ (r.err # NilErr) <=> (IsNil(c.PodNetInterfaces) \/ MatchingEntries(podName) = {})
    /\ r.err = NilErr =>
          LET reported ==
                ReportedEntries[FirstMatching(podName)].NetworkStatus.DeviceInfo.VhostUser
          IN  r.Path = reported.Path /\ r.Mode = reported.Mode

C11_VhostuserInfo ==
    /\ \A podName \in {"eth0", "net1", ""} : VhostuserInfoAsClaimed(podName)
    /\ Returned /\ Len(vmi.Interfaces) = 1
                /\ BindingsOf(vmi.Interfaces[1]) = {"Vhostuser"} =>
          LET n == getPodInterfaceName(vmi, vmi.Interfaces[1].Name)
              r == getVhostuserInfo(n.name, c)
          IN  /\ ~n.panic /\ n.err = NilErr
              /\ r.err # NilErr => ret = [kind |-> "error", ifaces |-> <<>>, err |-> r.err]
              /\ r.err = NilErr =>
                    /\ ret.kind = "ok"
                    /\ Len(ret.ifaces) = 1
                    /\ ret.ifaces[1].Source.Mode = r.Mode

(* The first entry has the pod interface name but another device type, the *)
(* second is a vhost-user entry of a namespaced name, the third matches    *)
(* too: the record carries the second entry's socket.                      *)
C11_Witness ==
    /\ Succeeded
    /\ Len(ReportedEntries) = 3
    /\ ReportedEntries[1] = PodNetInterface("memif", <<"eth0">>, <<"a.sock">>, "client")
    /\ ReportedEntries[2] = PodNetInterface("vhost-user", <<"ns", "/", "eth0">>,
                                            <<"/", "run", "/", "b.sock">>, "server")
    /\ ReportedEntries[3] = PodNetInterface("vhost-user", <<"eth0">>, <<"a.sock">>, "client")
    /\ Len(ret.ifaces) = 1
    /\ ret.ifaces[1].Source = [Type |-> "unix", Path |-> "/run/b.sock", Mode |-> "server"]

(* C12: a conversion with a macvtap-bound interface whose resolved network *)
(* is not a secondary Multus attachment (a pod network or a default Multus *)
(* network) returns an error and no record.                                *)
LastNamed(name) ==
    LET ks == {k \in DOMAIN vmi.Networks : vmi.Networks[k].Name = name}
    IN  vmi.Networks[CHOOSE k \in ks : \A j \in ks : j <= k]

SecondaryAttachment(network) ==
    ~IsNil(network.Multus) /\ ~Deref(network.Multus).Default

MacvtapOffSecondary ==
    \E k \in DOMAIN vmi.Interfaces :
        /\ BindingsOf(vmi.Interfaces[k]) = {"Macvtap"}
        /\ vmi.Interfaces[k].Name \in DeclaredNames
        /\ ~SecondaryAttachment(LastNamed(vmi.Interfaces[k].Name))

C12_MacvtapRequiresSecondaryNetwork ==
    Returned /\ MacvtapOffSecondary =>
        ret.kind = "error" /\ ret.ifaces = <<>>

(* C16: in a successful conversion the record of a bridge-, masquerade- or *)
(* macvtap-bound interface has exactly one of boot order and disabled ROM: *)
(* the interface's boot order iff it declares one, rom.enabled = "no"      *)
(* otherwise.                                                              *)
TapBound(iface) == BindingsOf(iface) \in {{"Bridge"}, {"Masquerade"}, {"Macvtap"}}

C16_BootOrderOrDisabledRom ==
    Succeeded /\ Len(ret.ifaces) = Len(Emitting) =>
        \A k \in DOMAIN Emitting :
            TapBound(Emitting[k]) =>
                LET rec == ret.ifaces[k] IN
                /\ IsNil(rec.BootOrder) # IsNil(rec.Rom)
                /\ ~IsNil(rec.BootOrder) <=> ~IsNil(Emitting[k].BootOrder)
                /\ ~IsNil(rec.BootOrder) =>
                      Deref(rec.BootOrder).Order = Deref(Emitting[k].BootOrder)
                /\ ~IsNil(rec.Rom) => Deref(rec.Rom).Enabled = "no"

(* A macvtap interface booting second and a bridge interface without boot  *)
(* order: the first record carries order 2, the second a disabled ROM.     *)
C16_Witness ==
    /\ Succeeded
    /\ Len(ret.ifaces) = 2
    /\ BindingsOf(vmi.Interfaces[1]) = {"Macvtap"}
    /\ vmi.Interfaces[1].BootOrder = Ptr(2)
    /\ BindingsOf(vmi.Interfaces[2]) = {"Bridge"}
    /\ IsNil(vmi.Interfaces[2].BootOrder)
    /\ ret.ifaces[1].BootOrder = Ptr([Order |-> 2]) /\ IsNil(ret.ifaces[1].Rom)
    /\ IsNil(ret.ifaces[2].BootOrder) /\ ret.ifaces[2].Rom = Ptr([Enabled |-> "no"])

(* C13: for a slirp-bound interface on a pod network the built value is    *)
(* "user,id=<name>", then exactly one ",net=<cidr>" clause (the network's  *)
(* CIDR when set and parseable, the default CIDR when unset; a set but     *)
(* unparseable CIDR fails the conversion), then one ",dnssearch=<domain>"  *)
(* clause per search domain in the order of the lookup, then the hostfwd   *)
(* clauses.                                                                *)
RECURSIVE DnsClausesFrom(_, _)
DnsClausesFrom(doms, k) ==
    IF k > Len(doms) THEN ""
    ELSE ",dnssearch=" \o doms[k] \o DnsClausesFrom(doms, k + 1)

ConfiguredCIDR(network) == Deref(network.Pod).VMNetworkCIDR

NetClause(network) ==
    ",net=" \o (IF ConfiguredCIDR(network) = "" THEN "10.0.2.0/24"
                ELSE ConfiguredCIDR(network))

SlirpValueAsClaimed(iface, network) ==
    "user,id=" \o iface.Name \o NetClause(network)
        \o DnsClausesFrom(env.resolv.searchDomains, 1)
        \o ClausesFrom(iface.Ports, 1)

C13_SlirpValueClauses ==
    Returned /\ Len(vmi.Interfaces) = 1 /\ BindingsOf(vmi.Interfaces[1]) = {"Slirp"}
             /\ ~IsNil(vmi.Networks[1].Pod) =>
        LET cidr == ConfiguredCIDR(vmi.Networks[1]) IN
        /\ cidr # "" /\ ParseCIDRFails(cidr) =>
              ret.kind = "error" /\ ArgsOf(domain) = <<>>
        /\ ret.kind = "ok" =>
              ArgsOf(domain) =
                  <<"-netdev", SlirpValueAsClaimed(vmi.Interfaces[1], vmi.Networks[1])>>

(* A configured CIDR, two search domains and two forwarded ports *)
C13_Witness ==
    /\ Succeeded
    /\ ConfiguredCIDR(vmi.Networks[1]) = "192.168.0.0/16"
    /\ env.resolv.searchDomains = <<"b.local", "a.local">>
    /\ ArgsOf(domain) =
          <<"-netdev",
            "user,id=n1,net=192.168.0.0/16,dnssearch=b.local,dnssearch=a.local"
                \o ",hostfwd=tcp::80-:80,hostfwd=udp::443-:443">>

(* C14: after a successful conversion the domain's argument sequence is    *)
(* its content before the call followed by, for each slirp-bound interface *)
(* in declaration order, "-netdev" and that interface's built value;       *)
(* the other bindings append nothing.                                      *)
RECURSIVE NetdevPairsFrom(_)
NetdevPairsFrom(k) ==
    IF k > Len(vmi.Interfaces) THEN <<>>
    ELSE LET iface == vmi.Interfaces[k] IN
         (IF BindingsOf(iface) = {"Slirp"}
          THEN <<"-netdev", SlirpValueAsClaimed(iface, LastNamed(iface.Name))>>
          ELSE <<>>) \o NetdevPairsFrom(k + 1)

SingleBindings ==
    \A k \in DOMAIN vmi.Interfaces : Cardinality(BindingsOf(vmi.Interfaces[k])) <= 1

C14_ArgsAfterSuccess ==
    Succeeded /\ SingleBindings =>
        ArgsOf(domain) = ArgsOf(pre.domain) \o NetdevPairsFrom(1)

(* Two slirp-bound interfaces around nothing else, on a domain that had    *)
(* arguments: two pairs follow the old arguments, in declaration order.    *)
C14_Witness ==
    /\ Succeeded
    /\ Len(vmi.Interfaces) = 2
    /\ ArgsOf(pre.domain) = <<"-S", "-nographic">>
    /\ ArgsOf(domain) =
          <<"-S", "-nographic",
            "-netdev", "user,id=n2,net=10.0.2.0/24,dnssearch=svc.local",
            "-netdev", "user,id=n1,net=10.0.2.0/24,dnssearch=svc.local"
                \o ",hostfwd=tcp::80-:80,hostfwd=udp::80-:80">>

(* A success without slirp-bound interface leaves a domain without command *)
(* line as it was.                                                         *)
C14_WitnessUnchanged ==
    /\ Succeeded
    /\ Len(vmi.Interfaces) = 2
    /\ BindingsOf(vmi.Interfaces[1]) = {"Bridge"}
    /\ BindingsOf(vmi.Interfaces[2]) = {"Vhostuser"}
    /\ domain = pre.domain
    /\ domain = NoCmd

(* C15: CalculateNetworkQueues returns the requested vCPU count when that  *)
(* does not exceed the tap-device maximum and the maximum otherwise, never *)
(* more than the maximum; this is the queue count the virtio records of a  *)
(* multi-queue conversion carry.                                           *)
C15_QueuesCappedAtMaximum ==
    LET queueNumber == CalculateNetworkQueues(vmi) IN
    /\ vmi.vcpus <= multiQueueMaxQueues => queueNumber = vmi.vcpus
    /\ vmi.vcpus > multiQueueMaxQueues => queueNumber = multiQueueMaxQueues
    /\ queueNumber <= multiQueueMaxQueues
    /\ Succeeded /\ MultiQueueRequested /\ Len(ret.ifaces) = Len(Emitting) =>
          \A k \in DOMAIN Emitting :
              Emitting[k].Model = "" =>
                  /\ ~IsNil(ret.ifaces[k].Driver)
                  /\ \E q \in 1..multiQueueMaxQueues :
                        /\ Deref(ret.ifaces[k].Driver).Queues = Ptr(q)
                        /\ q = vmi.vcpus \/ (q = multiQueueMaxQueues /\ vmi.vcpus > q)

(* More vCPUs than the maximum: the record carries the maximum *)
C15_Witness ==
    /\ Succeeded
    /\ MultiQueueRequested
    /\ vmi.vcpus > multiQueueMaxQueues
    /\ Len(ret.ifaces) >= 1
    /\ ret.ifaces[1].Driver =
          Ptr(InterfaceDriver("vhost", Ptr(multiQueueMaxQueues), <<>>, <<>>))

(* C17: when the networks pass validation and some interface names no      *)
(* declared network, the conversion fails with the network-not-found error *)
(* of the first such interface unless an earlier interface already failed  *)
(* it; the lookup comes before the SR-IOV skip, so an SR-IOV-bound         *)
(* interface with a dangling name fails the conversion too.                *)
Dangling == {k \in DOMAIN vmi.Interfaces : vmi.Interfaces[k].Name \notin DeclaredNames}

FirstDangling == CHOOSE k \in Dangling : \A j \in Dangling : k <= j

C17_DanglingNameFails ==
    Returned /\ InvalidNetworks = {} /\ Dangling # {} =>
        \/ /\ i = FirstDangling
           /\ ret = [kind |-> "error", ifaces |-> <<>>,
                     err |-> "failed to find network " \o vmi.Interfaces[FirstDangling].Name]
        \/ /\ i < FirstDangling
           /\ ret.kind \in {"error", "panic"}

(* A bridge interface converted, then an SR-IOV interface of an undeclared *)
(* network: the conversion fails at the second interface.                  *)
C17_Witness ==
    /\ ReturnedError
    /\ Len(vmi.Interfaces) = 2
    /\ BindingsOf(vmi.Interfaces[1]) = {"Bridge"}
    /\ BindingsOf(vmi.Interfaces[2]) = {"SRIOV"}
    /\ Dangling = {2}
    /\ i = 2
    /\ Len(domainInterfaces) = 1
    /\ ret.err = "failed to find network n2"

(* C18: getPodInterfaceName returns a pod interface name or an error       *)
(* value, the error exactly when the name is that of no declared network;  *)
(* it never crashes, also when a declared network has no interface of its  *)
(* name.                                                                   *)
C18_PodInterfaceNameNeverCrashes ==
    pc = "resolved" =>
        /\ ret.kind \in {"name", "error"}
        /\ ret.kind = "error" <=> ret.ifaceName \notin DeclaredNames

(* C19: with a slirp-bound interface whose resolved network has a Multus   *)
(* source and no pod source, createDomainInterfaces returns a record list  *)
(* or an error value; it does not crash.                                   *)
SlirpOnMultus ==
    \E k \in DOMAIN vmi.Interfaces :
        /\ BindingsOf(vmi.Interfaces[k]) = {"Slirp"}
        /\ vmi.Interfaces[k].Name \in DeclaredNames
        /\ IsNil(LastNamed(vmi.Interfaces[k].Name).Pod)
        /\ ~IsNil(LastNamed(vmi.Interfaces[k].Name).Multus)

C19_SlirpOnMultusReturns ==
    Returned /\ SlirpOnMultus => ret.kind \in {"ok", "error"}

(* C20: of several bindings set on an interface exactly one is applied,    *)
(* the first in the order SR-IOV, bridge/masquerade, slirp, macvtap,       *)
(* vhost-user, and the conversion returns and leaves in the domain what it *)
(* does for the same interfaces with only the applied binding set.         *)
AppliedBinding(iface) ==
    LET b == BindingsOf(iface) IN
    IF "SRIOV" \in b THEN {"SRIOV"}
    ELSE IF "Bridge" \in b THEN {"Bridge"}
    ELSE IF "Masquerade" \in b THEN {"Masquerade"}
    ELSE IF "Slirp" \in b THEN {"Slirp"}
    ELSE IF "Macvtap" \in b THEN {"Macvtap"}
    ELSE IF "Vhostuser" \in b THEN {"Vhostuser"}
    ELSE {}

OnlyApplied(iface) ==
    Interface(iface.Name, iface.Model, AppliedBinding(iface), iface.BootOrder,
              iface.PciAddress, iface.Ports)

WithOnlyAppliedBindings(v) ==
    [v EXCEPT !.Interfaces = [k \in DOMAIN v.Interfaces |-> OnlyApplied(v.Interfaces[k])]]

C20_FirstBindingAloneDecides ==
    Returned =>
        LET alone == createDomainInterfaces(WithOnlyAppliedBindings(pre.vmi), pre.domain,
                                            c, env.virtioNetProhibited)
        IN  /\ ret = alone.ret
            /\ domain = alone.domain

(* C21: indexNetworksByName always returns an index; it maps every         *)
(* declared name, and no other, to a copy of the last declared network of  *)
(* that name, and the dispatcher resolves an interface to that network: a  *)
(* slirp-bound interface gets its CIDR, a macvtap-bound one is accepted    *)
(* iff it has a Multus source.                                             *)
IndexIsLastOfName(index) ==
    /\ DOMAIN index = DeclaredNames
    /\ \A n \in DeclaredNames : index[n] = LastNamed(n)

C21_IndexKeepsLastOfName ==
    /\ IndexIsLastOfName(indexNetworksByName(vmi.Networks))
    /\ pc # "start" /\ InvalidNetworks = {} => IndexIsLastOfName(networks)
    /\ Returned /\ Len(vmi.Interfaces) = 1 /\ Dangling = {} =>
          LET iface == vmi.Interfaces[1]
              network == LastNamed(iface.Name)
          IN  /\ BindingsOf(iface) = {"Slirp"} /\ ~IsNil(network.Pod) =>
                    /\ ret.kind = "ok"
                    /\ ArgsOf(domain) = <<"-netdev", "user,id=" \o iface.Name
                                                        \o NetClause(network)>>
              /\ BindingsOf(iface) = {"Macvtap"} =>
                    (ret.kind = "ok" <=> ~IsNil(network.Multus))

(* Two pod networks named n1, the second with its own CIDR: the slirp      *)
(* interface n1 gets the second network's CIDR.                            *)
C21_Witness ==
    /\ Succeeded
    /\ vmi.Networks = <<Network("n1", PodNetwork(""), <<>>),
                        Network("n1", PodNetwork("192.168.0.0/16"), <<>>)>>
    /\ Len(vmi.Interfaces) = 1
    /\ ArgsOf(domain) = <<"-netdev", "user,id=n1,net=192.168.0.0/16">>

(* C22: a conversion call, successful or failed, leaves the input spec as  *)
(* it was: the declared networks, the interfaces and each interface's      *)
(* forwarded ports; a forwarded port declared with an empty protocol still *)
(* has an empty protocol after the call.                                   *)
C22_InputSpecUnchanged ==
    Returned =>
        /\ vmi.Networks = pre.vmi.Networks
        /\ vmi.Interfaces = pre.vmi.Interfaces
        /\ \A k \in DOMAIN pre.vmi.Interfaces :
              \A p \in DOMAIN pre.vmi.Interfaces[k].Ports :
                  pre.vmi.Interfaces[k].Ports[p].Protocol = "" =>
                      vmi.Interfaces[k].Ports[p].Protocol = ""

(* A success that forwarded port 80 with an empty protocol as tcp *)
C22_Witness ==
    /\ Succeeded
    /\ Len(pre.vmi.Interfaces[1].Ports) = 2
    /\ pre.vmi.Interfaces[1].Ports[2] = [Port |-> 80, Protocol |-> ""]
    /\ pre.vmi.Interfaces[1].Ports[1] = [Port |-> 443, Protocol |-> "UDP"]
    /\ env.resolv.searchDomains = <<>>
    /\ ArgsOf(domain) =
          <<"-netdev",
            "user,id=n1,net=10.0.2.0/24,hostfwd=udp::443-:443,hostfwd=tcp::80-:80">>
    /\ vmi.Interfaces[1].Ports[2].Protocol = ""

(* C23: the value built for a slirp-bound interface never holds two        *)
(* textually identical hostfwd clauses, also when two entries forward the  *)
(* same port with protocols that differ only in letter case: the value is  *)
(* the id, net and dnssearch clauses followed by pairwise different        *)
(* hostfwd clauses.                                                        *)
PossibleClauses ==
    {HostfwdClause(<<q, p>>) : q \in {"tcp", "udp"}, p \in {80, 443}}

RECURSIVE Concat(_)
Concat(clauses) ==
    IF clauses = <<>> THEN "" ELSE Head(clauses) \o Concat(Tail(clauses))

PairwiseDifferent(clauses) ==
    \A j, k \in DOMAIN clauses : j # k => clauses[j] # clauses[k]

C23_NoIdenticalHostfwdClauses ==
    Succeeded /\ Len(vmi.Interfaces) = 1 /\ BindingsOf(vmi.Interfaces[1]) = {"Slirp"} =>
        \E clauses \in SeqsUpTo(PossibleClauses, Len(vmi.Interfaces[1].Ports)) :
            /\ PairwiseDifferent(clauses)
            /\ ArgsOf(domain) =
                  <<"-netdev", ValueBeforePorts(vmi.Interfaces[1], vmi.Networks[1])
                                   \o Concat(clauses)>>

(* C24: validateVirtualMachineSpec reports the "lun can only be mapped to  *)
(* a PersistentVolumeClaim volume" cause for a disk if and only if the     *)
(* disk has a LUN target, the volume it names is declared, and the volume  *)
(* of that name has no PersistentVolumeClaim source, whichever volume is   *)
(* declared last. Where several volumes carry the name, the cause may      *)
(* follow any of them.                                                     *)
Reviewed == pc = "reviewed"

Reported(cause) == \E k \in DOMAIN causes : causes[k] = cause

VolumesNamed(name) ==
    {k \in DOMAIN spec.Volumes : spec.Volumes[k].Name = name}

C24_LunCauseFollowsNamedVolume ==
    Reviewed =>
        \A k \in DOMAIN spec.Domain.Devices.Disks :
            LET disk == spec.Domain.Devices.Disks[k]
                named == VolumesNamed(disk.VolumeName)
            IN  /\ Reported(lunNeedsPersistentVolumeClaim(k)) =>
                      /\ disk.LUN
                      /\ \E v \in named : ~spec.Volumes[v].PersistentVolumeClaim
                /\ ( /\ disk.LUN
                     /\ named # {}
                     /\ \A v \in named : ~spec.Volumes[v].PersistentVolumeClaim )
                      => Reported(lunNeedsPersistentVolumeClaim(k))

====
